---- MODULE Spec2Model ----
(***************************************************************************)
(* MapboxMapTools (src/unnamed/part_001, the UMD build of the library):    *)
(* the tool dispatcher executeTool, its ten handlers, getCustomLayerIds    *)
(* and destroy, run against an in-memory Mapbox GL JS map.                 *)
(*                                                                         *)
(* Identifiers are JavaScript strings, modelled as sequences of one        *)
(* character strings, so that the template literals, String.includes,      *)
(* String.endsWith and the regular expressions of the source are computed  *)
(* character by character.                                                 *)
(***************************************************************************)
EXTENDS Integers, Sequences, FiniteSets, TLC

\* ------------------------------------------------------------------ bounds
\* The layer-creating handlers are enabled while layerCounter < MaxCounter.
MaxCounter == 2
\* Spec explores every tool with every argument shape for the first MaxCalls
\* calls on a dispatcher; SpecLayers follows the layer tools without that limit.
MaxCalls == 2

\* ----------------------------------------------------------------- strings
Range(s) == {s[i] : i \in 1..Len(s)}

\* String.prototype.includes
Includes(s, sub) ==
    \E i \in 1..(Len(s) - Len(sub) + 1) : SubSeq(s, i, i + Len(sub) - 1) = sub

\* String.prototype.endsWith
EndsWith(s, suf) ==
    /\ Len(s) >= Len(suf)
    /\ SubSeq(s, Len(s) - Len(suf) + 1, Len(s)) = suf

\* String.prototype.startsWith
StartsWith(s, pre) ==
    /\ Len(s) >= Len(pre)
    /\ SubSeq(s, 1, Len(pre)) = pre

DigitChars == <<"0", "1", "2", "3", "4", "5", "6", "7", "8", "9">>

\* Number to string conversion of a template literal, for a non-negative integer
RECURSIVE ToStr(_)
ToStr(n) ==
    IF n < 10 THEN <<DigitChars[n + 1]>>
    ELSE ToStr(n \div 10) \o <<DigitChars[(n % 10) + 1]>>

Hyphen == <<"-">>

\* (the template literal without the counter)
UniqueLayerNameMissingCounter(layerName, n) == layerName \o Hyphen
\* `${layerName}-${++this.layerCounter}` once the counter has been advanced to n
UniqueLayerName(layerName, n) == layerName \o Hyphen \o ToStr(n)

\* the string literals of the source
PointsLayer == <<"p", "o", "i", "n", "t", "s", "-", "l", "a", "y", "e", "r">>
RouteLayer == <<"r", "o", "u", "t", "e", "-", "l", "a", "y", "e", "r">>
PolygonLayer == <<"p", "o", "l", "y", "g", "o", "n", "-", "l", "a", "y", "e", "r">>
VectorTilesetLayer ==
    <<"v", "e", "c", "t", "o", "r", "-", "t", "i", "l", "e", "s", "e", "t",
      "-", "l", "a", "y", "e", "r">>
LayerMarker == <<"-", "l", "a", "y", "e", "r", "-">>
FillSuffix == <<"-", "f", "i", "l", "l">>
\* (the stroke layer named as the handle itself)
StrokeSuffixMissing == <<>>
StrokeSuffix == <<"-", "s", "t", "r", "o", "k", "e">>
VectorSourceSuffix ==
    <<"-", "v", "e", "c", "t", "o", "r", "-", "s", "o", "u", "r", "c", "e">>
MapboxScheme == <<"m", "a", "p", "b", "o", "x", ":", "/", "/">>
HttpScheme == <<"h", "t", "t", "p", ":", "/", "/">>
HttpsScheme == <<"h", "t", "t", "p", "s", ":", "/", "/">>

\* the character class [a-zA-Z0-9-_.] of generateSourceId
SourceIdChars ==
    {"a", "b", "c", "d", "e", "f", "g", "h", "i", "j", "k", "l", "m", "n", "o",
     "p", "q", "r", "s", "t", "u", "v", "w", "x", "y", "z",
     "A", "B", "C", "D", "E", "F", "G", "H", "I", "J", "K", "L", "M", "N", "O",
     "P", "Q", "R", "S", "T", "U", "V", "W", "X", "Y", "Z"}
    \cup Range(DigitChars) \cup {"-", "_", "."}

\* /^(mapbox:\/\/|https?:\/\/)/ : the length of the match, 0 when there is none
SchemeMatchLen(url) ==
    IF StartsWith(url, MapboxScheme) THEN Len(MapboxScheme)
    ELSE IF StartsWith(url, HttpsScheme) THEN Len(HttpsScheme)
    ELSE IF StartsWith(url, HttpScheme) THEN Len(HttpScheme)
    ELSE 0

generateSourceId(tilesetUrl) ==
    LET stripped == SubSeq(tilesetUrl, SchemeMatchLen(tilesetUrl) + 1, Len(tilesetUrl))
        cleanUrl == [i \in 1..Len(stripped) |->
                        IF stripped[i] \in SourceIdChars THEN stripped[i] ELSE "-"]
    IN  cleanUrl \o VectorSourceSuffix

\* the naming convention of clearMapLayers and getCustomLayerIds
IsCustomLayerId(id) ==
    \/ Includes(id, LayerMarker)
    \/ EndsWith(id, FillSuffix)
    \/ EndsWith(id, StrokeSuffix)


\* ------------------------------------------------- the Mapbox GL JS map
\* The map is the mapInstance handed to the constructor.  It is held as
\*   layers    : the style's layers in order (getStyle().layers)
\*   sources   : the style's sources in insertion order (getStyle().sources)
\*   listeners : the delegated listeners registered with map.on(type, layerId, fn)
\*   camera    : center, zoom and the last camera call
\*   style     : the style URL last given to setStyle ("initial" before any)
\* A layer or source carries own = TRUE when a handler of this dispatcher added
\* it; the flag is bookkeeping for the properties and is read by no handler.
\*
\* Engine semantics are those of Mapbox GL JS: addSource throws on a duplicate
\* id, removeSource throws on an unknown id and fires an error event (no
\* change, no exception) while a layer uses the source, addLayer and
\* removeLayer fire an error event (no change, no exception) on a duplicate
\* layer id, a missing source or an unknown layer.

\* The running context of one handler call: the map, this.layerCounter, the
\* engine calls issued so far, whether an exception is in flight (with its
\* message), the handler's return value and the local removedCount.
NoReturn == [isError |-> FALSE, text |-> <<>>, kind |-> "none"]

NewContext(m, counter) ==
    [map |-> m, counter |-> counter, log |-> <<>>, thrown |-> FALSE,
     msg |-> <<>>, ret |-> NoReturn, removedCount |-> 0]

Logged(ctx, fn, arg, outcome) ==
    [ctx EXCEPT !.log = Append(@, [fn |-> fn, arg |-> arg, outcome |-> outcome])]

\* throw new Error(msg), or a TypeError raised by the runtime
Throw(ctx, msg) ==
    IF ctx.thrown THEN ctx ELSE [ctx EXCEPT !.thrown = TRUE, !.msg = msg]

LayerIds(m) == {m.layers[i].id : i \in 1..Len(m.layers)}
SourceIds(m) == {m.sources[i].id : i \in 1..Len(m.sources)}

\* map.getLayer(id) / map.getSource(id), as the truthiness the handlers test
HasLayer(m, id) == id \in LayerIds(m)
HasSource(m, id) == id \in SourceIds(m)
SourceOf(m, id) == m.sources[CHOOSE i \in 1..Len(m.sources) : m.sources[i].id = id]

MapGetLayer(ctx, id) ==
    IF ctx.thrown THEN ctx ELSE Logged(ctx, "getLayer", id, "ok")
MapGetSource(ctx, id) ==
    IF ctx.thrown THEN ctx ELSE Logged(ctx, "getSource", id, "ok")
MapGetStyle(ctx) ==
    IF ctx.thrown THEN ctx ELSE Logged(ctx, "getStyle", <<>>, "ok")

MapAddSource(ctx, id, cfg) ==
    IF ctx.thrown THEN ctx
    ELSE IF HasSource(ctx.map, id)
    THEN Throw(Logged(ctx, "addSource", id, "throw"),
               <<"There is already a source with this ID">>)
    ELSE [Logged(ctx, "addSource", id, "ok") EXCEPT
             !.map.sources = Append(@, [id |-> id, type |-> cfg.type,
                                         data |-> cfg.data, own |-> TRUE])]

LayerTypes == {"line", "fill", "circle", "fill-extrusion", "symbol"}

MapAddLayer(ctx, layer) ==
    IF ctx.thrown THEN ctx
    ELSE IF \/ HasLayer(ctx.map, layer.id)
            \/ ~HasSource(ctx.map, layer.source)
            \/ layer.type \notin LayerTypes
    THEN Logged(ctx, "addLayer", layer.id, "error-event")
    ELSE [Logged(ctx, "addLayer", layer.id, "ok") EXCEPT
             !.map.layers = Append(@, [id |-> layer.id, type |-> layer.type,
                                        source |-> layer.source,
                                        sourceLayer |-> layer.sourceLayer,
                                        paint |-> layer.paint, own |-> TRUE])]

MapRemoveLayer(ctx, id) ==
    IF ctx.thrown THEN ctx
    ELSE IF ~HasLayer(ctx.map, id)
    THEN Logged(ctx, "removeLayer", id, "error-event")
    ELSE [Logged(ctx, "removeLayer", id, "ok") EXCEPT
             !.map.layers = SelectSeq(@, LAMBDA l : l.id # id)]

SourceInUse(m, id) == \E i \in 1..Len(m.layers) : m.layers[i].source = id

MapRemoveSource(ctx, id) ==
    IF ctx.thrown THEN ctx
    ELSE IF ~HasSource(ctx.map, id)
    THEN Throw(Logged(ctx, "removeSource", id, "throw"),
               <<"There is no source with this ID">>)
    ELSE IF SourceInUse(ctx.map, id)
    THEN Logged(ctx, "removeSource", id, "error-event")
    ELSE [Logged(ctx, "removeSource", id, "ok") EXCEPT
             !.map.sources = SelectSeq(@, LAMBDA s : s.id # id)]

\* (a map.on that registers nothing)
MapOnNothing(ctx, type, layerId) == ctx
\* map.on(type, layerId, listener)
MapOn(ctx, type, layerId) ==
    IF ctx.thrown THEN ctx
    ELSE [Logged(ctx, "on", layerId, "ok") EXCEPT
             !.map.listeners = @ \cup {[type |-> type, layer |-> layerId]}]

\* LngLat.convert([lng, lat]) takes Number() of each item, so a numeric string
\* gives its number, and refuses NaN: an item that is undefined
\* ("Invalid LngLat object"). A coordinate is held with its typeof.
InvalidLngLat(center) ==
    center[1].type = "undefined" \/ center[2].type = "undefined"
LngLatConvert(center) ==
    <<[type |-> "number", v |-> center[1].v], [type |-> "number", v |-> center[2].v]>>

MapFlyTo(ctx, center, zoom) ==
    IF ctx.thrown THEN ctx
    ELSE IF InvalidLngLat(center)
    THEN Throw(Logged(ctx, "flyTo", <<>>, "throw"), <<"Invalid LngLat object">>)
    ELSE [Logged(ctx, "flyTo", <<>>, "ok") EXCEPT
             !.map.camera.center = LngLatConvert(center), !.map.camera.zoom = zoom,
             !.map.camera.by = "flyTo"]

MapSetCenter(ctx, center) ==
    IF ctx.thrown THEN ctx
    ELSE IF InvalidLngLat(center)
    THEN Throw(Logged(ctx, "setCenter", <<>>, "throw"), <<"Invalid LngLat object">>)
    ELSE [Logged(ctx, "setCenter", <<>>, "ok") EXCEPT
             !.map.camera.center = LngLatConvert(center), !.map.camera.by = "setCenter"]

MapSetZoom(ctx, zoom) ==
    IF ctx.thrown THEN ctx
    ELSE [Logged(ctx, "setZoom", <<>>, "ok") EXCEPT
             !.map.camera.zoom = zoom, !.map.camera.by = "setZoom"]

MapFitBounds(ctx, bounds, padding) ==
    IF ctx.thrown THEN ctx
    ELSE [Logged(ctx, "fitBounds", <<>>, "ok") EXCEPT
             !.map.camera.bounds = bounds, !.map.camera.padding = padding,
             !.map.camera.by = "fitBounds"]

\* The layers and sources of a Mapbox style document itself (none of them
\* added through this library): what map.setStyle leaves in the map.
Water == <<"w", "a", "t", "e", "r">>
Composite == <<"c", "o", "m", "p", "o", "s", "i", "t", "e">>
\* Paint dictionaries are functions from the paint property to its value;
\* fractional values are kept as their decimal text.
NoPaint == [k \in {} |-> 0]
BaseLayers ==
    <<[id |-> Water, type |-> "fill", source |-> Composite,
       sourceLayer |-> Water, paint |-> NoPaint, own |-> FALSE]>>
BaseSources ==
    <<[id |-> Composite, type |-> "vector", data |-> <<"mapbox://mapbox.mapbox-streets-v8">>,
       own |-> FALSE]>>

\* map.setStyle(url): the new style document replaces every layer and source
MapSetStyle(ctx, url) ==
    IF ctx.thrown THEN ctx
    ELSE [Logged(ctx, "setStyle", <<>>, "ok") EXCEPT
             !.map.layers = BaseLayers, !.map.sources = BaseSources,
             !.map.style = url]

\* map.queryRenderedFeatures / map.querySourceFeatures answer with the
\* features the engine holds; the answer is an input of the call
MapQueryRenderedFeatures(ctx, geometry) ==
    IF ctx.thrown THEN ctx ELSE Logged(ctx, "queryRenderedFeatures", <<>>, "ok")
MapQuerySourceFeatures(ctx, sourceId) ==
    IF ctx.thrown THEN ctx ELSE Logged(ctx, "querySourceFeatures", sourceId, "ok")

\* -------------------------------------------------------------- arguments
\* An args value is undefined ([obj |-> FALSE]) or an object: a record whose
\* field `has` names the properties that are present.
ArgsUndefined == [obj |-> FALSE, has |-> {}]
Has(args, f) == f \in args.has

\* const { ... } = args
Destructure(ctx, args) ==
    IF args.obj THEN ctx
    ELSE Throw(ctx, <<"Cannot destructure property of 'args' as it is undefined.">>)

UndefinedRead(ctx, prop) ==
    Throw(ctx, <<"Cannot read properties of undefined (reading '", prop, "')">>)

\* ------------------------------------------------------ result envelopes
TextEnvelope(text) ==
    [isError |-> FALSE, text |-> text, kind |-> "text",
     layerId |-> <<>>, sourceId |-> <<>>, data |-> <<>>]
LayerEnvelope(text, layerId) ==
    [isError |-> FALSE, text |-> text, kind |-> "layer",
     layerId |-> layerId, sourceId |-> <<>>, data |-> <<>>]
VectorLayerEnvelope(text, layerId, sourceId) ==
    [isError |-> FALSE, text |-> text, kind |-> "vector-layer",
     layerId |-> layerId, sourceId |-> sourceId, data |-> <<>>]
DataEnvelope(text, features) ==
    [isError |-> FALSE, text |-> text, kind |-> "data",
     layerId |-> <<>>, sourceId |-> <<>>, data |-> features]
\* the catch block of executeTool
ErrorEnvelope(message) ==
    [isError |-> TRUE, text |-> <<"Error: ">> \o message, kind |-> "error",
     layerId |-> <<>>, sourceId |-> <<>>, data |-> <<>>]

Return(ctx, env) == IF ctx.thrown THEN ctx ELSE [ctx EXCEPT !.ret = env]

\* (the counter read without being advanced)
NoTick(ctx) == ctx
\* ++this.layerCounter
Tick(ctx) == IF ctx.thrown THEN ctx ELSE [ctx EXCEPT !.counter = @ + 1]

\* ---------------------------------------------------------------- handlers
\* Every handler takes the context at its entry and gives the context at its
\* exit; a step after an exception has been thrown is skipped.

\* `Point ${index + 1}`
PointTitle(point, index) ==
    IF Has(point, "title") THEN point.title ELSE <<"Point ", index>>

PointsGeoJSON(points, options) ==
    [type |-> "FeatureCollection",
     features |-> [i \in 1..Len(points) |->
        [type |-> "Feature",
         geometry |-> [type |-> "Point",
                       coordinates |-> <<points[i].longitude, points[i].latitude>>],
         properties |-> [title |-> PointTitle(points[i], i),
                         description |-> "",
                         color |-> options.defaultPointColor]]]]

addPointsToMap(ctx0, args, options) ==
    LET c1 == Destructure(ctx0, args)
        layerName == IF args.obj /\ Has(args, "layerName") THEN args.layerName
                     ELSE PointsLayer
        c2 == Tick(c1)
        uniqueLayerName == UniqueLayerName(layerName, c2.counter)
        \* points.map(...)
        c3 == IF args.obj /\ ~Has(args, "points") THEN UndefinedRead(c2, "map") ELSE c2
        c4 == IF c3.thrown THEN c3
              ELSE MapAddSource(c3, uniqueLayerName,
                       [type |-> "geojson", data |-> PointsGeoJSON(args.points, options)])
        c5 == MapAddLayer(c4, [id |-> uniqueLayerName, type |-> "circle",
                               source |-> uniqueLayerName, sourceLayer |-> <<>>,
                               paint |-> ("circle-radius" :> 8 @@ "circle-color" :> "get-color"
                                         @@ "circle-stroke-width" :> 2
                                         @@ "circle-stroke-color" :> "#ffffff")])
        c6 == IF options.enablePopups THEN MapOn(c5, "click", uniqueLayerName) ELSE c5
        c7 == IF options.enableHoverEffects
              THEN MapOn(MapOn(c6, "mouseenter", uniqueLayerName),
                         "mouseleave", uniqueLayerName)
              ELSE c6
    IN  IF c7.thrown THEN c7
        ELSE Return(c7, LayerEnvelope(
                 <<"Added ", Len(args.points), " points to map layer ", uniqueLayerName>>,
                 uniqueLayerName))

addRouteToMap(ctx0, args, options) ==
    LET c1 == Destructure(ctx0, args)
        layerName == IF args.obj /\ Has(args, "layerName") THEN args.layerName
                     ELSE RouteLayer
        color == IF args.obj /\ Has(args, "color") THEN args.color
                 ELSE options.defaultRouteColor
        width == IF args.obj /\ Has(args, "width") THEN args.width
                 ELSE options.defaultRouteWidth
        c2 == Tick(c1)
        uniqueLayerName == UniqueLayerName(layerName, c2.counter)
        coordinates == IF args.obj /\ Has(args, "coordinates") THEN args.coordinates
                       ELSE "undefined"
        c3 == MapAddSource(c2, uniqueLayerName,
                  [type |-> "geojson",
                   data |-> [type |-> "Feature",
                             geometry |-> [type |-> "LineString",
                                           coordinates |-> coordinates]]])
        c4 == MapAddLayer(c3, [id |-> uniqueLayerName, type |-> "line",
                               source |-> uniqueLayerName, sourceLayer |-> <<>>,
                               paint |-> ("line-color" :> color @@ "line-width" :> width
                                         @@ "line-opacity" :> "0.8")])
        \* coordinates.length in the text of the result
        c5 == IF args.obj /\ ~Has(args, "coordinates") THEN UndefinedRead(c4, "length") ELSE c4
    IN  IF c5.thrown THEN c5
        ELSE Return(c5, LayerEnvelope(
                 <<"Added route with ", Len(args.coordinates), " points to map layer ",
                   uniqueLayerName>>,
                 uniqueLayerName))

panMapToLocation(ctx0, args) ==
    LET c1 == Destructure(ctx0, args)
        zoom == IF args.obj /\ Has(args, "zoom") THEN args.zoom ELSE 12
        animate == IF args.obj /\ Has(args, "animate") THEN args.animate ELSE TRUE
        longitude == IF args.obj /\ Has(args, "longitude") THEN args.longitude
                     ELSE [type |-> "undefined", v |-> 0]
        latitude == IF args.obj /\ Has(args, "latitude") THEN args.latitude
                    ELSE [type |-> "undefined", v |-> 0]
        c2 == IF animate THEN MapFlyTo(c1, <<longitude, latitude>>, zoom)
              ELSE MapSetZoom(MapSetCenter(c1, <<longitude, latitude>>), zoom)
        \* latitude.toFixed(4), then longitude.toFixed(4)
        c3 == IF latitude.type = "undefined"
                 \/ (latitude.type = "number" /\ longitude.type = "undefined")
              THEN UndefinedRead(c2, "toFixed")
              ELSE IF latitude.type # "number"
              THEN Throw(c2, <<"latitude.toFixed is not a function">>)
              ELSE IF longitude.type # "number"
              THEN Throw(c2, <<"longitude.toFixed is not a function">>)
              ELSE c2
    IN  Return(c3, TextEnvelope(<<"Map centered on ", latitude, longitude, zoom>>))

Min(a, b) == IF a < b THEN a ELSE b
Max(a, b) == IF a > b THEN a ELSE b

\* coordinates.reduce((bounds, coord) => bounds.extend(coord),
\*                    new mapboxgl.LngLatBounds(coordinates[0], coordinates[0]))
RECURSIVE ExtendBounds(_, _, _)
ExtendBounds(bounds, coordinates, i) ==
    IF i > Len(coordinates) THEN bounds
    ELSE ExtendBounds(
             <<<<Min(bounds[1][1], coordinates[i][1]), Min(bounds[1][2], coordinates[i][2])>>,
               <<Max(bounds[2][1], coordinates[i][1]), Max(bounds[2][2], coordinates[i][2])>>>>,
             coordinates, i + 1)

\* (the handler without its check of the list)
CoordinatesUnchecked(ctx, coordinates) == ctx
\* if (coordinates.length === 0) { throw new Error('No coordinates provided') }
RequireCoordinates(ctx, coordinates) ==
    IF ~ctx.thrown /\ Len(coordinates) = 0
    THEN Throw(ctx, <<"No coordinates provided">>) ELSE ctx

\* new mapboxgl.LngLatBounds(coordinates[0], coordinates[0]); both corners
\* are undefined for an empty list
InitialBounds(coordinates) ==
    IF Len(coordinates) = 0 THEN <<>> ELSE <<coordinates[1], coordinates[1]>>

fitMapToBounds(ctx0, args) ==
    LET c1 == Destructure(ctx0, args)
        padding == IF args.obj /\ Has(args, "padding") THEN args.padding ELSE 50
        c2 == IF args.obj /\ ~Has(args, "coordinates") THEN UndefinedRead(c1, "length") ELSE c1
        c3 == IF c2.thrown THEN c2 ELSE RequireCoordinates(c2, args.coordinates)
        c4 == IF c3.thrown THEN c3
              ELSE MapFitBounds(c3,
                       ExtendBounds(InitialBounds(args.coordinates), args.coordinates, 1),
                       padding)
    IN  IF c4.thrown THEN c4
        ELSE Return(c4, TextEnvelope(
                 <<"Map view adjusted to fit ", Len(args.coordinates), " coordinates">>))

\* (the ring given where the list of rings belongs)
PolygonGeoJSONUnwrapped(coordinates) ==
    [type |-> "Feature",
     geometry |-> [type |-> "Polygon", coordinates |-> coordinates[1]]]
\* const geojson = { type: 'Feature', geometry: { type: 'Polygon', coordinates } }
PolygonGeoJSON(coordinates) ==
    [type |-> "Feature",
     geometry |-> [type |-> "Polygon", coordinates |-> coordinates]]

addPolygonToMap(ctx0, args, options) ==
    LET c1 == Destructure(ctx0, args)
        layerName == IF args.obj /\ Has(args, "layerName") THEN args.layerName
                     ELSE PolygonLayer
        coordinates == IF args.obj /\ Has(args, "coordinates") THEN args.coordinates
                       ELSE "undefined"
        fillColor == IF args.obj /\ Has(args, "fillColor") THEN args.fillColor
                     ELSE options.defaultPolygonFillColor
        fillOpacity == IF args.obj /\ Has(args, "fillOpacity") THEN args.fillOpacity
                       ELSE options.defaultPolygonFillOpacity
        strokeColor == IF args.obj /\ Has(args, "strokeColor") THEN args.strokeColor
                       ELSE options.defaultPolygonStrokeColor
        strokeWidth == IF args.obj /\ Has(args, "strokeWidth") THEN args.strokeWidth
                       ELSE options.defaultPolygonStrokeWidth
        c2 == Tick(c1)
        uniqueLayerName == UniqueLayerName(layerName, c2.counter)
        c3 == MapAddSource(c2, uniqueLayerName,
                  [type |-> "geojson", data |-> PolygonGeoJSON(coordinates)])
        c4 == MapAddLayer(c3, [id |-> uniqueLayerName \o FillSuffix, type |-> "fill",
                               source |-> uniqueLayerName, sourceLayer |-> <<>>,
                               paint |-> ("fill-color" :> fillColor
                                          @@ "fill-opacity" :> fillOpacity)])
        c5 == MapAddLayer(c4, [id |-> uniqueLayerName \o StrokeSuffix, type |-> "line",
                               source |-> uniqueLayerName, sourceLayer |-> <<>>,
                               paint |-> ("line-color" :> strokeColor
                                          @@ "line-width" :> strokeWidth)])
    IN  Return(c5, LayerEnvelope(<<"Added polygon to map layer ", uniqueLayerName>>,
                                 uniqueLayerName))

\* (a loop that handles the first custom layer only)
RemoveFirstCustomLayerOnly(ctx, customLayers, i) ==
    IF customLayers = <<>> THEN ctx
    ELSE [MapRemoveLayer(MapGetLayer(ctx, customLayers[1]), customLayers[1])
             EXCEPT !.removedCount = @ + 1]
\* customLayers.forEach(layer => { if (getLayer(layer.id)) { removeLayer; removedCount++ } })
RECURSIVE RemoveCustomLayers(_, _, _)
RemoveCustomLayers(ctx, customLayers, i) ==
    IF i > Len(customLayers) \/ ctx.thrown THEN ctx
    ELSE LET id == customLayers[i]
             c1 == MapGetLayer(ctx, id)
             c2 == IF HasLayer(ctx.map, id)
                   THEN [MapRemoveLayer(c1, id) EXCEPT !.removedCount = @ + 1]
                   ELSE c1
         IN  RemoveCustomLayers(c2, customLayers, i + 1)

\* sources.forEach(sourceId => { if (sourceId.includes('-layer-')) removeSource(sourceId) })
RECURSIVE RemoveMarkedSources(_, _, _)
RemoveMarkedSources(ctx, sources, i) ==
    IF i > Len(sources) \/ ctx.thrown THEN ctx
    ELSE RemoveMarkedSources(
             IF Includes(sources[i], LayerMarker) THEN MapRemoveSource(ctx, sources[i])
             ELSE ctx,
             sources, i + 1)

\* (a clearMapLayers without the sweep of orphaned vector sources)
KeepOrphanVectorSources(ctx, sources, usedSources, i) == ctx
\* sources.forEach(sourceId => { if (sourceId.endsWith('-vector-source')
\*     && !usedSources.has(sourceId)) { if (getSource(sourceId)) removeSource(sourceId) } })
RECURSIVE RemoveOrphanVectorSources(_, _, _, _)
RemoveOrphanVectorSources(ctx, sources, usedSources, i) ==
    IF i > Len(sources) \/ ctx.thrown THEN ctx
    ELSE LET id == sources[i]
             c1 == IF EndsWith(id, VectorSourceSuffix) /\ id \notin usedSources
                   THEN LET g == MapGetSource(ctx, id)
                        IN  IF HasSource(ctx.map, id) THEN MapRemoveSource(g, id) ELSE g
                   ELSE ctx
         IN  RemoveOrphanVectorSources(c1, sources, usedSources, i + 1)

\* (a loop that handles the first name only)
RemoveFirstNamedOnly(ctx, layerNames, i) ==
    IF HasLayer(ctx.map, layerNames[1])
    THEN [MapRemoveLayer(MapGetLayer(ctx, layerNames[1]), layerNames[1])
             EXCEPT !.removedCount = @ + 1]
    ELSE MapGetLayer(ctx, layerNames[1])
\* layerNames.forEach(layerName => { if (getLayer) { removeLayer; removedCount++ }
\*                                   if (getSource) removeSource })
RECURSIVE RemoveNamed(_, _, _)
RemoveNamed(ctx, layerNames, i) ==
    IF i > Len(layerNames) \/ ctx.thrown THEN ctx
    ELSE LET name == layerNames[i]
             c1 == MapGetLayer(ctx, name)
             c2 == IF HasLayer(ctx.map, name)
                   THEN [MapRemoveLayer(c1, name) EXCEPT !.removedCount = @ + 1]
                   ELSE c1
             c3 == MapGetSource(c2, name)
             c4 == IF HasSource(c2.map, name) THEN MapRemoveSource(c3, name) ELSE c3
         IN  RemoveNamed(c4, layerNames, i + 1)

IdsOf(table) == [i \in 1..Len(table) |-> table[i].id]
UsedSources(m) == {m.layers[i].source : i \in 1..Len(m.layers)}

\* the filter deciding which layers clearMapLayers({}) removes
CustomLayersOf(m) == SelectSeq(IdsOf(m.layers), IsCustomLayerId)

clearMapLayers(ctx0, args) ==
    LET c1 == Destructure(ctx0, args)
        layerNames == IF args.obj /\ Has(args, "layerNames") THEN args.layerNames ELSE <<>>
        \* remove all custom layers
        a1 == MapGetStyle(c1)
        a2 == RemoveCustomLayers(a1, CustomLayersOf(c1.map), 1)
        a3 == MapGetStyle(a2)
        sources == IdsOf(a2.map.sources)
        a4 == RemoveMarkedSources(a3, sources, 1)
        a5 == MapGetStyle(a4)
        a6 == RemoveOrphanVectorSources(a5, sources, UsedSources(a4.map), 1)
        \* remove specific layers
        b1 == RemoveNamed(c1, layerNames, 1)
        b2 == MapGetStyle(MapGetStyle(b1))
        b3 == RemoveOrphanVectorSources(b2, IdsOf(b1.map.sources), UsedSources(b1.map), 1)
        c2 == IF c1.thrown THEN c1
              ELSE IF Len(layerNames) = 0 THEN a6 ELSE b3
    IN  Return(c2, TextEnvelope(<<"Removed ", c2.removedCount, " layers from the map">>))

StylePrefix == <<"mapbox://styles/mapbox/">>

setMapStyle(ctx0, args) ==
    LET c1 == Destructure(ctx0, args)
        style == IF args.obj /\ Has(args, "style") THEN args.style ELSE "undefined"
        c2 == MapSetStyle(c1, StylePrefix \o <<style>>)
    IN  Return(c2, TextEnvelope(<<"Changed map style to ", style>>))

\* defaultPaintByType[layerType]; {} for a layerType that is not a key
DefaultPaintByType(layerType) ==
    CASE layerType = "line" ->
            ("line-color" :> "#0074D9" @@ "line-width" :> 2 @@ "line-opacity" :> "0.8")
      [] layerType = "fill" ->
            ("fill-color" :> "#FF0000" @@ "fill-opacity" :> "0.3")
      [] layerType = "circle" ->
            ("circle-radius" :> 6 @@ "circle-color" :> "#FF0000"
             @@ "circle-opacity" :> "0.8")
      [] layerType = "fill-extrusion" ->
            ("fill-extrusion-color" :> "#0074D9" @@ "fill-extrusion-height" :> 10
             @@ "fill-extrusion-opacity" :> "0.8")
      [] layerType = "symbol" ->
            ("text-color" :> "#000000" @@ "text-halo-color" :> "#FFFFFF"
             @@ "text-halo-width" :> 2)
      [] OTHER -> NoPaint

\* { ...defaults, ...paint }
MergePaint(defaults, paint) == paint @@ defaults

\* (a handler that takes any tilesetUrl)
AnyTilesetUrl(tilesetUrl) == TRUE
\* tilesetUrl.match(/^(mapbox:\/\/|https?:\/\/)/)
ValidTilesetUrl(tilesetUrl) == SchemeMatchLen(tilesetUrl) > 0

VectorSourceData(tilesetUrl) ==
    IF StartsWith(tilesetUrl, MapboxScheme)
    THEN [url |-> tilesetUrl, tiles |-> <<>>]
    ELSE [url |-> <<>>, tiles |-> <<tilesetUrl>>]

\* (addSource called whether or not the source exists)
AlwaysAddSource(ctx, sourceId, tilesetUrl) ==
    MapAddSource(MapGetSource(ctx, sourceId), sourceId,
                 [type |-> "vector", data |-> VectorSourceData(tilesetUrl)])
\* if (!this.map.getSource(sourceId)) { ...; this.map.addSource(sourceId, sourceConfig) }
EnsureSource(ctx, sourceId, tilesetUrl) ==
    LET c1 == MapGetSource(ctx, sourceId)
    IN  IF c1.thrown \/ HasSource(c1.map, sourceId) THEN c1
        ELSE MapAddSource(c1, sourceId,
                          [type |-> "vector", data |-> VectorSourceData(tilesetUrl)])

addVectorTilesetLayer(ctx0, args) ==
    LET c1 == Destructure(ctx0, args)
        layerName == IF args.obj /\ Has(args, "layerName") THEN args.layerName
                     ELSE VectorTilesetLayer
        layerType == IF args.obj /\ Has(args, "layerType") THEN args.layerType
                     ELSE "undefined"
        sourceLayer == IF args.obj /\ Has(args, "sourceLayer") THEN args.sourceLayer
                       ELSE <<"undefined">>
        paint == IF args.obj /\ Has(args, "paint") THEN args.paint ELSE NoPaint
        \* validate tileset URL format
        c2 == IF args.obj /\ ~Has(args, "tilesetUrl") THEN UndefinedRead(c1, "match") ELSE c1
        c3 == IF ~c2.thrown /\ ~ValidTilesetUrl(args.tilesetUrl)
              THEN Throw(c2, <<"Invalid tileset URL format. Must start with \"mapbox://\" or \"http(s)://\"">>)
              ELSE c2
        c4 == Tick(c3)
        uniqueLayerName == UniqueLayerName(layerName, c4.counter)
        sourceId == generateSourceId(args.tilesetUrl)
        \* add source if it doesn't exist
        c6 == IF c4.thrown THEN c4 ELSE EnsureSource(c4, sourceId, args.tilesetUrl)
        c7 == MapAddLayer(c6, [id |-> uniqueLayerName, type |-> layerType,
                               source |-> sourceId, sourceLayer |-> sourceLayer,
                               paint |-> MergePaint(DefaultPaintByType(layerType), paint)])
    IN  IF c7.thrown THEN c7
        ELSE Return(c7, VectorLayerEnvelope(
                 <<"Added vector tileset layer ", uniqueLayerName, " from source ", sourceId>>,
                 uniqueLayerName, sourceId))

\* Array.prototype.slice(0, limit) for an integer limit
SliceAll(features, limit) == features
Slice(features, limit) ==
    LET n == Len(features)
        end == IF limit < 0 THEN Max(n + limit, 0) ELSE Min(limit, n)
    IN  SubSeq(features, 1, end)

StripRendered(f) ==
    [type |-> "Feature", properties |-> f.properties, layer |-> f.layer,
     source |-> f.source, sourceLayer |-> f.sourceLayer, geometry |-> "stripped"]
StripSource(f) ==
    [type |-> "Feature", properties |-> f.properties, layer |-> "stripped",
     source |-> f.source, sourceLayer |-> f.sourceLayer, geometry |-> "stripped"]

IsNumber(v) == v.type = "number"

\* (the handler without its check of the two parameters)
AcceptBoth(ctx, hasPoint, hasBbox) == ctx
\* if (point && bbox) { throw new Error('Cannot specify both ...') }
RejectBoth(ctx, hasPoint, hasBbox) ==
    IF hasPoint /\ hasBbox
    THEN Throw(ctx, <<"Cannot specify both point and bbox parameters. Use one or the other.">>)
    ELSE ctx

queryRenderedFeatures(ctx0, args, engineFeatures) ==
    LET c1 == Destructure(ctx0, args)
        hasPoint == args.obj /\ Has(args, "point")
        hasBbox == args.obj /\ Has(args, "bbox")
        limit == IF args.obj /\ Has(args, "limit") THEN args.limit ELSE 100
        includeGeometry == IF args.obj /\ Has(args, "includeGeometry")
                           THEN args.includeGeometry ELSE TRUE
        c2 == RejectBoth(c1, hasPoint, hasBbox)
        c3 == IF hasPoint /\ (~IsNumber(args.point.x) \/ ~IsNumber(args.point.y))
              THEN Throw(c2, <<"Invalid point coordinates. Expected {x: number, y: number}.">>)
              ELSE IF ~hasPoint /\ hasBbox /\ (~args.bbox.isArray \/ Len(args.bbox.items) # 4)
              THEN Throw(c2, <<"Invalid bbox format. Expected [x1, y1, x2, y2].">>)
              ELSE c2
        queryGeometry == IF hasPoint THEN <<args.point.x, args.point.y>>
                         ELSE IF hasBbox THEN args.bbox.items
                         ELSE <<>>
        c4 == MapQueryRenderedFeatures(c3, queryGeometry)
        sliced == Slice(engineFeatures, limit)
        features == IF includeGeometry THEN sliced
                    ELSE [i \in 1..Len(sliced) |-> StripRendered(sliced[i])]
    IN  IF c4.thrown THEN c4
        ELSE Return(c4, DataEnvelope(<<"Found ", Len(features), " rendered features">>,
                                     features))

\* availableSources.join(', ') || 'none'
CommaSpace == <<",", " ">>
RECURSIVE Join(_, _)
Join(ids, i) ==
    IF i > Len(ids) THEN <<>>
    ELSE IF i = Len(ids) THEN ids[i]
    ELSE ids[i] \o CommaSpace \o Join(ids, i + 1)
NoneText == <<"n", "o", "n", "e">>
AvailableSources(m) ==
    LET joined == Join(IdsOf(m.sources), 1)
    IN  IF joined = <<>> THEN NoneText ELSE joined

\* (the handler without its check of sourceLayer)
SourceLayerOptional(ctx, sourceId, hasSourceLayer) == ctx
\* if (source.type === 'vector' && !sourceLayer) { throw new Error(...) }
RequireSourceLayer(ctx, sourceId, hasSourceLayer) ==
    IF ~ctx.thrown /\ SourceOf(ctx.map, sourceId).type = "vector" /\ ~hasSourceLayer
    THEN Throw(ctx, <<"sourceLayer parameter is required for vector tile sources">>)
    ELSE ctx

querySourceFeatures(ctx0, args, engineFeatures) ==
    LET c1 == Destructure(ctx0, args)
        sourceId == IF args.obj /\ Has(args, "sourceId") THEN args.sourceId
                    ELSE <<"undefined">>
        hasSourceLayer == args.obj /\ Has(args, "sourceLayer")
        limit == IF args.obj /\ Has(args, "limit") THEN args.limit ELSE 1000
        includeGeometry == IF args.obj /\ Has(args, "includeGeometry")
                           THEN args.includeGeometry ELSE TRUE
        \* validate source exists
        c2 == MapGetSource(c1, sourceId)
        c3 == IF ~c2.thrown /\ ~HasSource(c2.map, sourceId)
              THEN Throw(MapGetStyle(c2),
                         <<"Source ", sourceId, " not found. Available sources: ",
                           AvailableSources(c2.map)>>)
              ELSE c2
        \* for vector sources, require sourceLayer
        c4 == RequireSourceLayer(c3, sourceId, hasSourceLayer)
        c5 == MapQuerySourceFeatures(c4, sourceId)
        sliced == Slice(engineFeatures, limit)
        features == IF includeGeometry THEN sliced
                    ELSE [i \in 1..Len(sliced) |-> StripSource(sliced[i])]
    IN  IF c5.thrown THEN c5
        ELSE Return(c5, DataEnvelope(<<"Found ", Len(features), " features from source ",
                                       sourceId>>, features))

\* the filter of getCustomLayerIds
getCustomLayerIds(m) == SelectSeq(IdsOf(m.layers), IsCustomLayerId)

\* ------------------------------------------------------------ executeTool
\* the names of the tools initializeTools lists, which getToolsForLLM returns
Catalog ==
    {"add_points_to_map", "add_route_to_map", "pan_map_to_location",
     "fit_map_to_bounds", "add_polygon_to_map", "clear_map_layers", "set_map_style",
     "add_vector_tileset_layer", "query_rendered_features", "query_source_features"}

\* (a switch without the default case: the call resolves to undefined)
UnknownToolNoDefault(ctx, toolName) == ctx
\* default: throw new Error(`Unknown tool: ${toolName}`)
UnknownTool(ctx, toolName) == Throw(ctx, <<"Unknown tool: ", toolName>>)

\* (a switch that lacks the cases of the two query tools)
DispatchWithoutQueries(toolName, ctx, args, options, engineFeatures) ==
    CASE toolName = "add_points_to_map" -> addPointsToMap(ctx, args, options)
      [] toolName = "add_route_to_map" -> addRouteToMap(ctx, args, options)
      [] toolName = "pan_map_to_location" -> panMapToLocation(ctx, args)
      [] toolName = "fit_map_to_bounds" -> fitMapToBounds(ctx, args)
      [] toolName = "add_polygon_to_map" -> addPolygonToMap(ctx, args, options)
      [] toolName = "clear_map_layers" -> clearMapLayers(ctx, args)
      [] toolName = "set_map_style" -> setMapStyle(ctx, args)
      [] toolName = "add_vector_tileset_layer" -> addVectorTilesetLayer(ctx, args)
      [] OTHER -> UnknownTool(ctx, toolName)
\* the switch statement
Dispatch(toolName, ctx, args, options, engineFeatures) ==
    CASE toolName = "add_points_to_map" -> addPointsToMap(ctx, args, options)
      [] toolName = "add_route_to_map" -> addRouteToMap(ctx, args, options)
      [] toolName = "pan_map_to_location" -> panMapToLocation(ctx, args)
      [] toolName = "fit_map_to_bounds" -> fitMapToBounds(ctx, args)
      [] toolName = "add_polygon_to_map" -> addPolygonToMap(ctx, args, options)
      [] toolName = "clear_map_layers" -> clearMapLayers(ctx, args)
      [] toolName = "set_map_style" -> setMapStyle(ctx, args)
      [] toolName = "add_vector_tileset_layer" -> addVectorTilesetLayer(ctx, args)
      [] toolName = "query_rendered_features" ->
            queryRenderedFeatures(ctx, args, engineFeatures)
      [] toolName = "query_source_features" ->
            querySourceFeatures(ctx, args, engineFeatures)
      [] OTHER -> UnknownTool(ctx, toolName)

\* (the handler called outside the try block: its exception rejects the promise)
Uncaught(ctx) ==
    [rejected |-> ctx.thrown, envelope |-> ctx.ret]
\* try { ... } catch (error) { return { content: [...], isError: true } }:
\* what the promise of executeTool settles to
TryCatch(ctx) ==
    [rejected |-> FALSE,
     envelope |-> IF ctx.thrown THEN ErrorEnvelope(ctx.msg) ELSE ctx.ret]

executeTool(toolName, args, m, counter, options, engineFeatures) ==
    LET ctx == Dispatch(toolName, NewContext(m, counter), args, options, engineFeatures)
        settled == TryCatch(ctx)
    IN  [rejected |-> settled.rejected, envelope |-> settled.envelope,
         map |-> ctx.map, counter |-> ctx.counter, log |-> ctx.log,
         thrown |-> ctx.thrown, msg |-> ctx.msg]

\* destroy() { this.clearMapLayers({}) }: no try/catch around the call
EmptyArgs == [obj |-> TRUE, has |-> {}]
destroy(m, counter) ==
    LET ctx == clearMapLayers(NewContext(m, counter), EmptyArgs)
    IN  [rejected |-> ctx.thrown, envelope |-> ctx.ret,
         map |-> ctx.map, counter |-> ctx.counter, log |-> ctx.log,
         thrown |-> ctx.thrown, msg |-> ctx.msg]

\* ------------------------------------------------------------------ state
VARIABLES
    map,           \* this.map: the Mapbox GL JS map (owned by the caller)
    layerCounter,  \* this.layerCounter
    options,       \* this.options
    last,          \* the call that led to this state: its arguments, the
                   \* engine calls it issued, the features the engine
                   \* answered a query with, the error raised inside it (if
                   \* any), what it returned, and whether the call before it
                   \* was a clear_map_layers({}) or a destroy()
    issued,        \* the layerIds returned so far, in call order, each with
                   \* the layerName (and tilesetUrl) it was asked for and
                   \* the sourceId returned with it
    calls,         \* the number of calls made on the dispatcher, counted up
                   \* to MaxCalls
    pending        \* the promises of the executeTool calls that were started
                   \* without being awaited, in the order of the calls; each
                   \* tells what its handler did and whether it has settled

vars == <<map, layerCounter, options, last, issued, calls, pending>>

\* ------------------------------------------------------- inputs of the calls
Cities == <<"c", "i", "t", "i", "e", "s">>
Parks == <<"p", "a", "r", "k", "s">>
ParksFill == Parks \o FillSuffix
Leftover == UniqueLayerName(PointsLayer, 1)

DefaultOptions ==
    [defaultPointColor |-> "#FF0000", defaultRouteColor |-> "#0074D9",
     defaultRouteWidth |-> 4, defaultPolygonFillColor |-> "#FF0000",
     defaultPolygonFillOpacity |-> "0.3", defaultPolygonStrokeColor |-> "#FF0000",
     defaultPolygonStrokeWidth |-> 2, enablePopups |-> TRUE,
     enableHoverEffects |-> TRUE]

\* { ...defaults, ...options } for an options object that turns the
\* interactive features off
QuietOptions ==
    [DefaultOptions EXCEPT !.enablePopups = FALSE, !.enableHoverEffects = FALSE]

InitialCamera ==
    [center |-> <<[type |-> "number", v |-> 0], [type |-> "number", v |-> 0]>>,
     zoom |-> 0, bounds |-> <<>>, padding |-> 0, by |-> "initial"]

\* The maps the constructor is given: a loaded style, alone or with layers the
\* application added itself (a fill layer of its own, and a points layer left
\* by an earlier MapboxMapTools instance on the same map).
AppLayers ==
    <<[id |-> ParksFill, type |-> "fill", source |-> Parks, sourceLayer |-> <<>>,
       paint |-> NoPaint, own |-> FALSE],
      [id |-> Leftover, type |-> "circle", source |-> Leftover, sourceLayer |-> <<>>,
       paint |-> NoPaint, own |-> FALSE]>>
AppSources ==
    <<[id |-> Parks, type |-> "geojson", data |-> <<>>, own |-> FALSE],
      [id |-> Leftover, type |-> "geojson", data |-> <<>>, own |-> FALSE]>>

BareMap ==
    [layers |-> BaseLayers, sources |-> BaseSources, listeners |-> {},
     camera |-> InitialCamera, style |-> <<"initial">>]
AppMap ==
    [layers |-> BaseLayers \o AppLayers, sources |-> BaseSources \o AppSources,
     listeners |-> {}, camera |-> InitialCamera, style |-> <<"initial">>]

\* a map whose style document has no layer and no source
BlankMap ==
    [layers |-> <<>>, sources |-> <<>>, listeners |-> {}, camera |-> InitialCamera,
     style |-> <<"blank">>]

\* A mapInstance is a map, or is missing (undefined); where no map was given
\* the variable map holds an engine with nothing in it, which no call reaches.
NoEngine ==
    [layers |-> <<>>, sources |-> <<>>, listeners |-> {}, camera |-> InitialCamera,
     style |-> <<"none">>]
MapInstance(m) == [given |-> TRUE, map |-> m]
MissingMapInstance == [given |-> FALSE, map |-> NoEngine]

\* (a constructor that takes whatever it is given)
constructorUnchecked(mapInstance, mergedOptions) ==
    [thrown |-> FALSE, msg |-> <<>>, map |-> mapInstance.map,
     options |-> mergedOptions, layerCounter |-> 0, log |-> <<>>]
\* constructor(mapInstance, options = {}); mergedOptions is
\* { ...defaults, ...options }
constructor(mapInstance, mergedOptions) ==
    IF ~mapInstance.given
    THEN [thrown |-> TRUE, msg |-> <<"Mapbox GL JS map instance is required">>,
          map |-> mapInstance.map, options |-> mergedOptions, layerCounter |-> 0,
          log |-> <<>>]
    ELSE [thrown |-> FALSE, msg |-> <<>>, map |-> mapInstance.map,
          options |-> mergedOptions, layerCounter |-> 0, log |-> <<>>]

\* new MapboxMapTools(mapInstance, options)
Constructions ==
    {[mapInstance |-> MapInstance(BareMap), options |-> DefaultOptions],
     [mapInstance |-> MapInstance(AppMap), options |-> QuietOptions],
     [mapInstance |-> MissingMapInstance, options |-> DefaultOptions]}

\* the record of the construction; args.obj tells whether a map was given
NoCall ==
    [op |-> "constructor", tool |-> "", args |-> EmptyArgs, rejected |-> FALSE,
     envelope |-> NoReturn, log |-> <<>>, thrown |-> FALSE, msg |-> <<>>, ids |-> <<>>,
     afterClear |-> FALSE, engine |-> <<>>]

Construct(c) ==
    /\ \E r \in {constructor(c.mapInstance, c.options)} :
           /\ map = r.map
           /\ options = r.options
           /\ layerCounter = r.layerCounter
           /\ last = [NoCall EXCEPT !.args.obj = c.mapInstance.given,
                                    !.rejected = r.thrown, !.thrown = r.thrown,
                                    !.msg = r.msg, !.log = r.log]
    /\ issued = <<>>
    /\ calls = 0
    /\ pending = <<>>

Init == \E c \in Constructions : Construct(c)

\* there is a dispatcher to call: the constructor did not throw
Constructed == ~(last.op = "constructor" /\ last.thrown)

APoint == [longitude |-> 13, latitude |-> 52, has |-> {"longitude", "latitude"}]
ALine == <<<<13, 52>>, <<2, 48>>>>
ARing == <<<<<<0, 0>>, <<4, 0>>, <<4, 3>>, <<0, 0>>>>>>
TrafficUrl ==
    MapboxScheme \o <<"m", "a", "p", "b", "o", "x", ".", "t", "r", "a", "f", "f", "i", "c">>
FtpUrl == <<"f", "t", "p", ":", "/", "/", "t">>
Traffic == <<"t", "r", "a", "f", "f", "i", "c">>

LayerNameChoices(has, rest) ==
    {[rest EXCEPT !.has = has, !.layerName = <<>>],
     [rest EXCEPT !.has = has \cup {"layerName"}, !.layerName = Cities]}

PointsArgs ==
    LayerNameChoices({"points"},
        [obj |-> TRUE, has |-> {}, points |-> <<APoint>>, layerName |-> <<>>])
    \cup {[obj |-> TRUE, has |-> {}, points |-> <<>>, layerName |-> <<>>]}
RouteArgs ==
    {[obj |-> TRUE, has |-> {"coordinates"}, coordinates |-> ALine, layerName |-> <<>>],
     [obj |-> TRUE, has |-> {}, coordinates |-> <<>>, layerName |-> <<>>]}
PolygonArgs ==
    LayerNameChoices({"coordinates"},
        [obj |-> TRUE, has |-> {}, coordinates |-> ARing, layerName |-> <<>>])
VectorArgs ==
    LayerNameChoices({"tilesetUrl", "sourceLayer", "layerType"},
        [obj |-> TRUE, has |-> {}, tilesetUrl |-> TrafficUrl, sourceLayer |-> Traffic,
         layerType |-> "line", layerName |-> <<>>])
    \cup {[obj |-> TRUE, has |-> {"tilesetUrl", "sourceLayer", "layerType"},
           tilesetUrl |-> FtpUrl, sourceLayer |-> Traffic, layerType |-> "line",
           layerName |-> <<>>]}
\* JSON values by their typeof: the number n, the string spelling n, undefined
Num(n) == [type |-> "number", v |-> n]
Text(n) == [type |-> "string", v |-> n]
Undefined == [type |-> "undefined", v |-> 0]
\* pan_map_to_location: numbers, latitude missing, numeric strings (animated
\* and not)
PanArgs ==
    {[obj |-> TRUE, has |-> {"longitude", "latitude"}, longitude |-> Num(13),
      latitude |-> Num(52), animate |-> TRUE],
     [obj |-> TRUE, has |-> {"longitude"}, longitude |-> Num(13),
      latitude |-> Undefined, animate |-> TRUE],
     [obj |-> TRUE, has |-> {"longitude", "latitude"}, longitude |-> Text(13),
      latitude |-> Text(52), animate |-> TRUE],
     [obj |-> TRUE, has |-> {"longitude", "latitude", "animate"}, longitude |-> Text(13),
      latitude |-> Text(52), animate |-> FALSE]}
FitArgs ==
    {[obj |-> TRUE, has |-> {"coordinates"}, coordinates |-> <<>>],
     [obj |-> TRUE, has |-> {"coordinates"}, coordinates |-> ALine]}
\* clear_map_layers: {} or { layerNames: [layerId] } for a layerId returned earlier
ClearArgs(returned) ==
    {[obj |-> TRUE, has |-> {}, layerNames |-> <<>>]}
    \cup {[obj |-> TRUE, has |-> {"layerNames"}, layerNames |-> <<returned[i].layerId>>] :
             i \in 1..Len(returned)}
StyleArgs == {[obj |-> TRUE, has |-> {"style"}, style |-> "dark-v11"]}
APixel == [x |-> Num(0), y |-> Num(0)]
ABox == [isArray |-> TRUE, items |-> <<Num(0), Num(0), Num(1), Num(1)>>]
QueryRenderedArgs ==
    {[obj |-> TRUE, has |-> {}, point |-> APixel, bbox |-> ABox],
     [obj |-> TRUE, has |-> {"point", "bbox"}, point |-> APixel, bbox |-> ABox]}
QuerySourceArgs ==
    {[obj |-> TRUE, has |-> {"sourceId", "sourceLayer"}, sourceId |-> Composite,
      sourceLayer |-> Water],
     [obj |-> TRUE, has |-> {"sourceId"}, sourceId |-> Cities, sourceLayer |-> <<>>]}

UnknownTools == {"nonexistent_tool"}

ArgsOf(toolName, returned) ==
    CASE toolName = "add_points_to_map" -> PointsArgs
      [] toolName = "add_route_to_map" -> RouteArgs
      [] toolName = "pan_map_to_location" -> PanArgs
      [] toolName = "fit_map_to_bounds" -> FitArgs
      [] toolName = "add_polygon_to_map" -> PolygonArgs
      [] toolName = "clear_map_layers" -> ClearArgs(returned)
      [] toolName = "set_map_style" -> StyleArgs
      [] toolName = "add_vector_tileset_layer" -> VectorArgs
      [] toolName = "query_rendered_features" -> QueryRenderedArgs
      [] toolName = "query_source_features" -> QuerySourceArgs
      [] OTHER -> {EmptyArgs}

AFeature(n) ==
    [type |-> "Feature", properties |-> n, layer |-> "water",
     source |-> "composite", sourceLayer |-> "water", geometry |-> <<n, n>>]
EngineFeatureLists == {<<AFeature(1), AFeature(2)>>}

QueryTools == {"query_rendered_features", "query_source_features"}

LayerCreating ==
    {"add_points_to_map", "add_route_to_map", "add_polygon_to_map",
     "add_vector_tileset_layer"}

DefaultLayerName(toolName) ==
    CASE toolName = "add_points_to_map" -> PointsLayer
      [] toolName = "add_route_to_map" -> RouteLayer
      [] toolName = "add_polygon_to_map" -> PolygonLayer
      [] toolName = "add_vector_tileset_layer" -> VectorTilesetLayer

RequestedLayerName(toolName, args) ==
    IF args.obj /\ Has(args, "layerName") THEN args.layerName
    ELSE DefaultLayerName(toolName)

\* ---------------------------------------------------------------- actions
\* clear_map_layers({}) through executeTool, or destroy()
IsClearAll(call) ==
    /\ call.op = "executeTool"
    /\ call.tool = "clear_map_layers"
    /\ call.args.obj
    /\ Has(call.args, "layerNames") => call.args.layerNames = <<>>
IsClear(call) == IsClearAll(call) \/ call.op = "destroy"

Counted(n) == IF n < MaxCalls THEN n + 1 ELSE n

\* await mapTools.executeTool(toolName, args)
ExecuteTool(toolName, args, engineFeatures) ==
    /\ Constructed
    /\ toolName \in LayerCreating => layerCounter < MaxCounter
    /\ \E r \in {executeTool(toolName, args, map, layerCounter, options, engineFeatures)} :
           /\ map' = r.map
           /\ layerCounter' = r.counter
           /\ last' = [op |-> "executeTool", tool |-> toolName, args |-> args,
                       rejected |-> r.rejected, envelope |-> r.envelope,
                       log |-> r.log, thrown |-> r.thrown, msg |-> r.msg,
                       ids |-> <<>>, afterClear |-> IsClear(last),
                       engine |-> IF toolName \in QueryTools THEN engineFeatures
                                  ELSE <<>>]
           /\ issued' = IF ~r.rejected /\ r.envelope.kind \in {"layer", "vector-layer"}
                        THEN Append(issued,
                                 [tool |-> toolName,
                                  layerName |-> RequestedLayerName(toolName, args),
                                  layerId |-> r.envelope.layerId,
                                  sourceId |-> r.envelope.sourceId,
                                  tilesetUrl |-> IF toolName = "add_vector_tileset_layer"
                                                 THEN args.tilesetUrl ELSE <<>>])
                        ELSE issued
    /\ calls' = Counted(calls)
    /\ UNCHANGED <<options, pending>>

\* mapTools.destroy()
Destroy ==
    /\ Constructed
    /\ \E r \in {destroy(map, layerCounter)} :
           /\ map' = r.map
           /\ layerCounter' = r.counter
           /\ last' = [op |-> "destroy", tool |-> "", args |-> EmptyArgs,
                       rejected |-> r.rejected, envelope |-> r.envelope,
                       log |-> r.log, thrown |-> r.thrown, msg |-> r.msg,
                       ids |-> <<>>, afterClear |-> IsClear(last), engine |-> <<>>]
    /\ calls' = Counted(calls)
    /\ UNCHANGED <<options, issued, pending>>

\* mapTools.getCustomLayerIds()
GetCustomLayerIds ==
    /\ Constructed
    /\ last' = [op |-> "getCustomLayerIds", tool |-> "", args |-> EmptyArgs,
                rejected |-> FALSE, envelope |-> NoReturn,
                log |-> <<[fn |-> "getStyle", arg |-> <<>>, outcome |-> "ok"]>>,
                thrown |-> FALSE, msg |-> <<>>, ids |-> getCustomLayerIds(map),
                afterClear |-> IsClear(last), engine |-> <<>>]
    /\ calls' = Counted(calls)
    /\ UNCHANGED <<map, layerCounter, options, issued, pending>>

Call(toolNames, undefinedArgs) ==
    \E toolName \in toolNames :
        \E args \in ArgsOf(toolName, issued) \cup undefinedArgs :
            \E engineFeatures \in EngineFeatureLists :
                ExecuteTool(toolName, args, engineFeatures)

\* every tool, with well-formed, malformed and missing arguments
Next ==
    /\ calls < MaxCalls
    /\ \/ Call(Catalog \cup UnknownTools, {ArgsUndefined})
       \/ Destroy
       \/ GetCustomLayerIds

Spec == Init /\ [][Next]_vars

\* the tools that add and remove layers, for as long as the counter allows
LayerTools == LayerCreating \cup {"clear_map_layers", "set_map_style"}

NextLayers ==
    \/ Call(LayerTools, {})
    \/ Destroy
    \/ GetCustomLayerIds

SpecLayers == Init /\ [][NextLayers]_vars

\* a layerId a layer-creating call has returned
IsIssued(layerId) == \E i \in 1..Len(issued) : issued[i].layerId = layerId

\* ------------------------------------------------- the query tools in detail
\* the screen geometries a caller may give: none (the viewport), a point, a
\* box, both, and values of the wrong shape
RenderedGeometries ==
    {[has |-> {}, point |-> APixel, bbox |-> ABox],
     [has |-> {"point"}, point |-> APixel, bbox |-> ABox],
     [has |-> {"point"}, point |-> [x |-> Text(0), y |-> Num(0)], bbox |-> ABox],
     [has |-> {"point"}, point |-> [x |-> Num(0), y |-> Undefined], bbox |-> ABox],
     [has |-> {"bbox"}, point |-> APixel, bbox |-> ABox],
     [has |-> {"bbox"}, point |-> APixel,
      bbox |-> [isArray |-> TRUE, items |-> <<Num(0), Num(0), Num(1)>>]],
     [has |-> {"bbox"}, point |-> APixel,
      bbox |-> [isArray |-> TRUE, items |-> <<Num(0), Num(0), Num(1), Num(1), Num(2)>>]],
     [has |-> {"bbox"}, point |-> APixel,
      bbox |-> [isArray |-> TRUE, items |-> <<Text(0), Text(0), Text(1), Text(1)>>]],
     [has |-> {"bbox"}, point |-> APixel,
      bbox |-> [isArray |-> FALSE, items |-> <<Num(0), Num(0), Num(1), Num(1)>>]],
     [has |-> {"point", "bbox"}, point |-> APixel, bbox |-> ABox],
     [has |-> {"point", "bbox"}, point |-> [x |-> Text(0), y |-> Num(0)], bbox |-> ABox]}

\* a query with and without includeGeometry: false
WithGeometryChoice(base) ==
    {base, [base EXCEPT !.has = @ \cup {"includeGeometry"}]}

RenderedQueries ==
    UNION {WithGeometryChoice([obj |-> TRUE, has |-> g.has, point |-> g.point,
                               bbox |-> g.bbox, limit |-> 0, includeGeometry |-> FALSE]) :
              g \in RenderedGeometries}

\* the source a caller may name: the style's vector source with and without
\* its sourceLayer, a source that does not exist, the layerId of an earlier
\* result, and the sourceId property of the result just received
NamedSources(returned) ==
    {[has |-> {"sourceId", "sourceLayer"}, sourceId |-> Composite, sourceLayer |-> Water],
     [has |-> {"sourceId"}, sourceId |-> Composite, sourceLayer |-> <<>>],
     [has |-> {"sourceId"}, sourceId |-> Cities, sourceLayer |-> <<>>]}
    \cup {[has |-> {"sourceId"}, sourceId |-> returned[i].layerId, sourceLayer |-> <<>>] :
             i \in 1..Len(returned)}
SourceOfResult(call) ==
    IF call.envelope.kind \notin {"layer", "vector-layer"} THEN {}
    ELSE {[has |-> IF call.envelope.sourceId = <<>> THEN {} ELSE {"sourceId"},
           sourceId |-> call.envelope.sourceId, sourceLayer |-> <<>>]}

SourceQueries(returned, call) ==
    UNION {WithGeometryChoice([obj |-> TRUE, has |-> q.has, sourceId |-> q.sourceId,
                               sourceLayer |-> q.sourceLayer, limit |-> 0,
                               includeGeometry |-> FALSE]) :
              q \in NamedSources(returned) \cup SourceOfResult(call)}

\* what the engine answers: nothing or a few features
FewFeatures == <<AFeature(1), AFeature(2), AFeature(3)>>
\* for a GeoJSON source holding one feature, the engine may answer with that
\* feature as it was given
StoredFeature(m, sourceId) ==
    [type |-> "Feature", properties |-> 0, layer |-> "",
     source |-> sourceId, sourceLayer |-> "",
     geometry |-> SourceOf(m, sourceId).data.geometry]

QueryRendered ==
    \E args \in RenderedQueries : \E engineFeatures \in {<<>>, FewFeatures} :
        ExecuteTool("query_rendered_features", args, engineFeatures)

QuerySource ==
    \/ \E args \in SourceQueries(issued, last) : \E engineFeatures \in {<<>>, FewFeatures} :
           ExecuteTool("query_source_features", args, engineFeatures)
    \/ \E args \in {q \in SourceQueries(issued, last) :
                        /\ Has(q, "sourceId")
                        /\ IsIssued(q.sourceId)
                        /\ HasSource(map, q.sourceId)} :
           ExecuteTool("query_source_features", args, <<StoredFeature(map, args.sourceId)>>)

AddPolygon ==
    \E args \in PolygonArgs : ExecuteTool("add_polygon_to_map", args, <<>>)

\* polygons added, and the map queried at every place and source
NextQueries ==
    /\ calls < MaxCalls
    /\ \/ QueryRendered
       \/ QuerySource
       \/ AddPolygon

\* the dispatchers of Spec, and one on a map without any source
InitQueries ==
    \E c \in Constructions
              \cup {[mapInstance |-> MapInstance(BlankMap), options |-> DefaultOptions]} :
        Construct(c)

SpecQueries == InitQueries /\ [][NextQueries]_vars

\* ------------------------------------------------------ the limit of a query
\* limit: absent, inside the documented range, at its ends, and outside it
RenderedMaximum == 1000
SourceMaximum == 10000
Limits ==
    {0 - 1, 0, 1, 2, 5, 100, 101, RenderedMaximum, RenderedMaximum + 1,
     SourceMaximum, SourceMaximum + 1}

WithEachLimit(base) ==
    WithGeometryChoice(base)
    \cup UNION {WithGeometryChoice([base EXCEPT !.limit = n, !.has = @ \cup {"limit"}]) :
                   n \in Limits}

RenderedLimitQueries ==
    WithEachLimit([obj |-> TRUE, has |-> {}, point |-> APixel, bbox |-> ABox,
                   limit |-> 0, includeGeometry |-> FALSE])
SourceLimitQueries ==
    WithEachLimit([obj |-> TRUE, has |-> {"sourceId", "sourceLayer"},
                   sourceId |-> Composite, sourceLayer |-> Water,
                   limit |-> 0, includeGeometry |-> FALSE])

\* the engine answers with nothing, a few features, or more features than
\* the documented maximum of query_rendered_features
ManyCount == 1002
ManyFeatures == [n \in 1..ManyCount |-> AFeature(n)]
Answers == {<<>>, FewFeatures, ManyFeatures}

QueryLimited ==
    \E engineFeatures \in Answers :
        \/ \E args \in RenderedLimitQueries :
               ExecuteTool("query_rendered_features", args, engineFeatures)
        \/ \E args \in SourceLimitQueries :
               ExecuteTool("query_source_features", args, engineFeatures)

NextLimits ==
    /\ calls < MaxCalls
    /\ QueryLimited

SpecLimits == Init /\ [][NextLimits]_vars

\* ------------------------------------------------- vector tilesets in detail
\* tileset URLs: a Mapbox tileset, the same path on a tile server (https and
\* http), and URLs of other schemes, of a scheme in capitals, without a scheme
MapboxTraffic == <<"m", "a", "p", "b", "o", "x", ".", "t", "r", "a", "f", "f", "i", "c">>
HttpsTrafficUrl == HttpsScheme \o MapboxTraffic
HttpTilesUrl == HttpScheme \o <<"t", "/", "{", "z", "}">>
CapitalsUrl == <<"H", "T", "T", "P", ":", "/", "/", "t">>
EmbeddedUrl == <<"x">> \o TrafficUrl
TilesetUrls ==
    {TrafficUrl, HttpsTrafficUrl, HttpTilesUrl, FtpUrl, CapitalsUrl, EmbeddedUrl,
     MapboxTraffic}

TilesetArgs ==
    {[obj |-> TRUE, has |-> {"tilesetUrl", "sourceLayer", "layerType"},
      tilesetUrl |-> tilesetUrl, sourceLayer |-> Traffic, layerType |-> "line",
      layerName |-> <<>>] : tilesetUrl \in TilesetUrls}

AddVectorTileset ==
    \E args \in TilesetArgs : ExecuteTool("add_vector_tileset_layer", args, <<>>)
ClearLayers ==
    \E args \in ClearArgs(issued) : ExecuteTool("clear_map_layers", args, <<>>)

\* vector layers added from every kind of URL, removed by name, all at once
\* and by destroy
NextTilesets ==
    \/ AddVectorTileset
    \/ ClearLayers
    \/ Destroy

SpecTilesets == Init /\ [][NextTilesets]_vars

\* ------------------------------------------- calls that are not awaited
\* executeTool is an async function without an await: the call
\* mapTools.executeTool(toolName, args) runs the switch and the whole handler
\* before it returns its promise, and the promise settles in a later
\* microtask, in the order of the calls.
EngineCallsSoFar == IF pending = <<>> THEN 0 ELSE pending[Len(pending)].to

\* const promise = mapTools.executeTool(toolName, args)
StartTool(toolName, args) ==
    /\ Constructed
    /\ toolName \in LayerCreating => layerCounter < MaxCounter
    /\ \E r \in {executeTool(toolName, args, map, layerCounter, options, <<>>)} :
           /\ map' = r.map
           /\ layerCounter' = r.counter
           /\ pending' = Append(pending,
                             [tool |-> toolName, args |-> args, rejected |-> r.rejected,
                              envelope |-> r.envelope, log |-> r.log,
                              counterBefore |-> layerCounter, counter |-> r.counter,
                              from |-> EngineCallsSoFar,
                              to |-> EngineCallsSoFar + Len(r.log),
                              settled |-> FALSE])
           /\ last' = [op |-> "start", tool |-> toolName, args |-> args,
                       rejected |-> FALSE, envelope |-> NoReturn,
                       log |-> r.log, thrown |-> r.thrown, msg |-> r.msg,
                       ids |-> <<>>, afterClear |-> IsClear(last), engine |-> <<>>]
    /\ calls' = Counted(calls)
    /\ UNCHANGED <<options, issued>>

Unsettled == {i \in 1..Len(pending) : ~pending[i].settled}

\* the microtask in which the oldest unsettled promise settles: the caller
\* receives the envelope
Settle ==
    /\ Unsettled # {}
    /\ \E i \in {j \in Unsettled : \A k \in Unsettled : j <= k} :
           /\ pending' = [pending EXCEPT ![i].settled = TRUE]
           /\ last' = [op |-> "settle", tool |-> pending[i].tool, args |-> pending[i].args,
                       rejected |-> pending[i].rejected, envelope |-> pending[i].envelope,
                       log |-> <<>>, thrown |-> FALSE, msg |-> <<>>,
                       ids |-> <<>>, afterClear |-> FALSE, engine |-> <<>>]
           /\ issued' = IF ~pending[i].rejected
                            /\ pending[i].envelope.kind \in {"layer", "vector-layer"}
                         THEN Append(issued,
                                  [tool |-> pending[i].tool,
                                   layerName |-> RequestedLayerName(pending[i].tool,
                                                                    pending[i].args),
                                   layerId |-> pending[i].envelope.layerId,
                                   sourceId |-> pending[i].envelope.sourceId,
                                   tilesetUrl |-> IF pending[i].tool = "add_vector_tileset_layer"
                                                  THEN pending[i].args.tilesetUrl ELSE <<>>])
                         ELSE issued
    /\ UNCHANGED <<map, layerCounter, options, calls>>

StartAny ==
    \E toolName \in Catalog \cup UnknownTools :
        \E args \in ArgsOf(toolName, issued) \cup {ArgsUndefined} :
            StartTool(toolName, args)

\* the first MaxCalls calls on a dispatcher, none awaited
NextConcurrent ==
    \/ calls < MaxCalls /\ StartAny
    \/ Settle

SpecConcurrent == Init /\ [][NextConcurrent]_vars

\* ------------------------------------------------------- clearing by name
\* the names a caller may pass: ids of layers in the map (its own, the
\* application's, the style's), handles returned earlier, a name of nothing
CandidateNames(m, returned) ==
    LayerIds(m) \cup {returned[i].layerId : i \in 1..Len(returned)} \cup {Cities}
\* layerNames of one name, and of two names (the same name twice included)
NameLists(m, returned) ==
    {<<a>> : a \in CandidateNames(m, returned)}
    \cup {<<a, b>> : a \in CandidateNames(m, returned), b \in CandidateNames(m, returned)}

AddLayer ==
    \/ \E args \in {a \in PointsArgs : Has(a, "points") /\ ~Has(a, "layerName")} :
           ExecuteTool("add_points_to_map", args, <<>>)
    \/ \E args \in {a \in PolygonArgs : ~Has(a, "layerName")} :
           ExecuteTool("add_polygon_to_map", args, <<>>)
    \/ \E args \in {a \in VectorArgs : a.tilesetUrl = TrafficUrl /\ ~Has(a, "layerName")} :
           ExecuteTool("add_vector_tileset_layer", args, <<>>)
ClearNames ==
    \E args \in {[obj |-> TRUE, has |-> {"layerNames"}, layerNames |-> layerNames] :
                      layerNames \in NameLists(map, issued)} :
        ExecuteTool("clear_map_layers", args, <<>>)

\* layers added, and removed by every list of one or two names, for the
\* first MaxCalls calls on a dispatcher
NextClear ==
    /\ calls < MaxCalls
    /\ \/ AddLayer
       \/ ClearNames

SpecClear == Init /\ [][NextClear]_vars

\* --------------------------------------------------- the interactive options
\* { ...defaults, ...options } for each choice of enablePopups and
\* enableHoverEffects
InteractiveOptions ==
    {[DefaultOptions EXCEPT !.enablePopups = popups, !.enableHoverEffects = hover] :
        popups \in BOOLEAN, hover \in BOOLEAN}

InitInteractive ==
    \E o \in InteractiveOptions :
        Construct([mapInstance |-> MapInstance(BareMap), options |-> o])

\* every tool, on a dispatcher of each choice of the interactive options
SpecInteractive == InitInteractive /\ [][Next]_vars

\* ------------------------------------------------------------- properties
IsExecute(call) == call.op = "executeTool"

\* C1: executeTool never propagates an exception: whatever the tool name and
\* the arguments, its promise resolves to an envelope, and an error raised
\* inside a handler (a failed validation, a TypeError on malformed or missing
\* arguments, an engine call that throws) gives exactly
\* {content: [{type: 'text', text: 'Error: ' + message}], isError: true}.
C1_NeverPropagates ==
    IsExecute(last) =>
        /\ ~last.rejected
        /\ last.thrown =>
              /\ last.envelope.isError
              /\ last.envelope.kind = "error"
              /\ last.envelope.text = <<"Error: ">> \o last.msg
        /\ ~last.thrown => last.envelope.kind \in {"text", "layer", "vector-layer", "data"}

\* an engine call threw inside a handler and the caller got the error envelope
C1_Witness ==
    /\ IsExecute(last)
    /\ last.thrown
    /\ \E i \in 1..Len(last.log) : last.log[i].outcome = "throw"
    /\ last.envelope.isError

\* C2: executeTool with a name outside the catalog returns isError true with
\* the text 'Error: Unknown tool: <name>', issues no engine call and leaves
\* the layer counter unchanged.
C2_UnknownTool ==
    [][(IsExecute(last') /\ last'.tool \notin Catalog) =>
          /\ ~last'.rejected
          /\ last'.envelope.isError
          /\ last'.envelope.text = <<"Error: ", "Unknown tool: ", last'.tool>>
          /\ last'.log = <<>>
          /\ layerCounter' = layerCounter]_vars

\* an unknown tool was called on a dispatcher whose counter had advanced
C2_Witness ==
    /\ IsExecute(last)
    /\ last.tool \in UnknownTools
    /\ layerCounter > 0
    /\ last.envelope.isError

\* C3: on one dispatcher no two layer-creating calls ever return the same
\* layerId, whatever calls (failed ones, clear_map_layers, set_map_style,
\* destroy) lie between them and also when both were given the same layerName.
C3_UniqueLayerIds ==
    \A i \in 1..Len(issued) : \A j \in 1..Len(issued) :
        i # j => issued[i].layerId # issued[j].layerId

\* two calls were given the same layerName and both returned a layerId
C3_Witness ==
    /\ Len(issued) >= 2
    /\ issued[1].layerName = issued[2].layerName
    /\ issued[1].tool # issued[2].tool

\* the decimal number a string of digits denotes; -1 when it is not one
DigitValue(c) == CHOOSE d \in 0..9 : DigitChars[d + 1] = c
RECURSIVE ParseNat(_)
ParseNat(str) ==
    IF str = <<>> \/ \E i \in 1..Len(str) : str[i] \notin Range(DigitChars) THEN -1
    ELSE IF Len(str) = 1 THEN DigitValue(str[1])
    ELSE 10 * ParseNat(SubSeq(str, 1, Len(str) - 1)) + DigitValue(str[Len(str)])

\* the position of the last '-' of an identifier, 0 when it has none
LastHyphen(id) ==
    IF \E i \in 1..Len(id) : id[i] = "-"
    THEN CHOOSE i \in 1..Len(id) : id[i] = "-" /\ \A j \in (i + 1)..Len(id) : id[j] # "-"
    ELSE 0
NamePart(id) == SubSeq(id, 1, LastHyphen(id) - 1)
SuffixPart(id) == ParseNat(SubSeq(id, LastHyphen(id) + 1, Len(id)))

\* C4: every returned layerId reads '{layerName}-{n}' with n a number, and
\* the numbers strictly increase in the order of the calls.
C4_SuffixesIncrease ==
    /\ \A i \in 1..Len(issued) :
          /\ LastHyphen(issued[i].layerId) > 0
          /\ NamePart(issued[i].layerId) = issued[i].layerName
          /\ SuffixPart(issued[i].layerId) >= 1
    /\ \A i \in 1..Len(issued) : \A j \in 1..Len(issued) :
          i < j => SuffixPart(issued[i].layerId) < SuffixPart(issued[j].layerId)

\* add_points_to_map was called twice with layerName 'cities'
C4_Witness ==
    /\ Len(issued) >= 2
    /\ \A i \in 1..2 : issued[i].tool = "add_points_to_map" /\ issued[i].layerName = Cities

\* the checks a layer-creating handler makes before it advances the counter:
\* args is an object and, for add_vector_tileset_layer, tilesetUrl is a
\* string starting with mapbox://, http:// or https://
PassesEntryChecks(toolName, args) ==
    /\ args.obj
    /\ toolName = "add_vector_tileset_layer" =>
          /\ Has(args, "tilesetUrl")
          /\ \E scheme \in {MapboxScheme, HttpScheme, HttpsScheme} :
                StartsWith(args.tilesetUrl, scheme)

\* C5 (as stated): every invocation of a layer-creating handler advances the
\* layer counter by exactly one, also when it ends in a validation failure.
C5_EveryInvocationTicks ==
    [][(IsExecute(last') /\ last'.tool \in LayerCreating) =>
          layerCounter' = layerCounter + 1]_vars

\* C5 (amended): a layer-creating handler advances the counter by exactly one
\* when args is an object and, for add_vector_tileset_layer, the tilesetUrl
\* has an accepted scheme - also when the call fails afterwards; every other
\* call leaves the counter as it is, so it never decreases and is never reset.
C5_CounterAdvance ==
    [][IF /\ IsExecute(last')
          /\ last'.tool \in LayerCreating
          /\ PassesEntryChecks(last'.tool, last'.args)
       THEN layerCounter' = layerCounter + 1
       ELSE layerCounter' = layerCounter]_vars

\* a layer-creating call failed after it had consumed a counter value
C5_Witness ==
    /\ IsExecute(last)
    /\ last.tool \in LayerCreating
    /\ last.envelope.isError
    /\ PassesEntryChecks(last.tool, last.args)
    /\ layerCounter = 2
    /\ Len(issued) = 1

OwnLayerIds(m) == {m.layers[i].id : i \in {j \in 1..Len(m.layers) : m.layers[j].own}}
OwnSourceIds(m) == {m.sources[i].id : i \in {j \in 1..Len(m.sources) : m.sources[j].own}}
ForeignLayerIds(m) == LayerIds(m) \ OwnLayerIds(m)
ForeignSourceIds(m) == SourceIds(m) \ OwnSourceIds(m)

\* the layerIds returned by add_points_to_map, add_route_to_map and
\* add_vector_tileset_layer
SingleLayerIds ==
    {issued[i].layerId : i \in {j \in 1..Len(issued) : issued[j].tool # "add_polygon_to_map"}}

\* `Removed ${removedCount} layers from the map`
ReportedCount(call) == call.envelope.text[2]

Removals(call) ==
    {i \in 1..Len(call.log) :
        call.log[i].fn \in {"removeLayer", "removeSource"} /\ call.log[i].outcome = "ok"}

\* C6: when the layers this dispatcher holds in the map are the N layers of
\* successful add_points_to_map / add_route_to_map / add_vector_tileset_layer
\* calls (default or caller-chosen layerName), clear_map_layers({}) removes
\* exactly those: none of them remains and the reported count is N (stated
\* for the calls that remove no layer of the application's own).
C6_ClearAllRemovesCreated ==
    [][(/\ IsClearAll(last')
        /\ OwnLayerIds(map) \subseteq SingleLayerIds
        /\ ForeignLayerIds(map) \subseteq LayerIds(map')) =>
          /\ ~last'.envelope.isError
          /\ OwnLayerIds(map') = {}
          /\ ReportedCount(last') = Cardinality(OwnLayerIds(map))]_vars

\* C7: clear_map_layers({}) removes no layer and no source that this
\* dispatcher did not create, whatever their identifiers.
C7_ClearAllKeepsForeign ==
    [][IsClearAll(last') =>
          /\ ForeignLayerIds(map) \subseteq LayerIds(map')
          /\ ForeignSourceIds(map) \subseteq SourceIds(map')]_vars

\* C8: a clear_map_layers({}) or destroy() made right after a
\* clear_map_layers({}) or destroy() removes nothing, leaves the map's layer
\* and source tables as they are, reports 0 with isError false and does not
\* throw.
C8_ClearIdempotent ==
    [][(IsClear(last) /\ IsClear(last')) =>
          /\ ~last'.rejected
          /\ ~last'.thrown
          /\ IsExecute(last') => (~last'.envelope.isError /\ ReportedCount(last') = 0)
          /\ Removals(last') = {}
          /\ IdsOf(map'.layers) = IdsOf(map.layers)
          /\ IdsOf(map'.sources) = IdsOf(map.sources)]_vars

\* layers were created and cleared, and a second clear followed at once
C8_Witness ==
    /\ IsClear(last)
    /\ last.afterClear
    /\ Len(issued) = 2
    /\ OwnLayerIds(map) = {}

\* C9: after destroy() no layer and no source this dispatcher created is left
\* in the map.
C9_DestroyRemovesAll ==
    last.op = "destroy" => (OwnLayerIds(map) = {} /\ OwnSourceIds(map) = {})

\* C10: getCustomLayerIds() returns exactly the ids of the layers now in the
\* map that this dispatcher created.
C10_CustomLayerIdsExact ==
    last.op = "getCustomLayerIds" => Range(last.ids) = OwnLayerIds(map)

\* the layers of the map that the call behind a handle added: the layer named by the handle, or the
\* layers drawn from the GeoJSON source named by the handle
CreatedLayerIds(m, layerId) ==
    {m.layers[i].id : i \in {j \in 1..Len(m.layers) :
        m.layers[j].own /\ (m.layers[j].id = layerId \/ m.layers[j].source = layerId)}}
CreatedGeoJSONSourceIds(m, layerId) ==
    {m.sources[i].id : i \in {j \in 1..Len(m.sources) :
        m.sources[j].own /\ m.sources[j].id = layerId /\ m.sources[j].type = "geojson"}}

\* clear_map_layers({ layerNames: [layerId] }) through executeTool
IsClearNamed(call) ==
    /\ call.op = "executeTool"
    /\ call.tool = "clear_map_layers"
    /\ call.args.obj
    /\ Has(call.args, "layerNames")
    /\ Len(call.args.layerNames) = 1

\* C11: clear_map_layers({layerNames: [layerId]}) with the layerId a
\* successful layer-creating call returned, while what that call created is
\* still in the map, removes every layer and the GeoJSON source the call
\* created and reports at least one layer removed.
C11_ClearByReturnedId ==
    [][(/\ IsClearNamed(last')
        /\ IsIssued(last'.args.layerNames[1])
        /\ CreatedLayerIds(map, last'.args.layerNames[1]) # {}) =>
          /\ ~last'.envelope.isError
          /\ CreatedLayerIds(map', last'.args.layerNames[1]) = {}
          /\ CreatedGeoJSONSourceIds(map', last'.args.layerNames[1]) = {}
          /\ ReportedCount(last') >= 1]_vars

CameraCalls == {"fitBounds", "flyTo", "setCenter", "setZoom"}
IssuedCalls(call, fns) == {i \in 1..Len(call.log) : call.log[i].fn \in fns}

\* fit_map_to_bounds({ coordinates: [] }) through executeTool
IsFitOfNothing(call) ==
    /\ call.op = "executeTool"
    /\ call.tool = "fit_map_to_bounds"
    /\ call.args.obj
    /\ Has(call.args, "coordinates")
    /\ call.args.coordinates = <<>>

\* C12: fit_map_to_bounds with an empty coordinates list returns an error
\* envelope, issues no fitBounds, flyTo, setCenter or setZoom call and leaves
\* the camera where it was.
C12_FitEmptyIsError ==
    [][IsFitOfNothing(last') =>
          /\ ~last'.rejected
          /\ last'.envelope.isError
          /\ IssuedCalls(last', CameraCalls) = {}
          /\ map'.camera = map.camera]_vars

\* the empty list was given after the camera had been moved by an earlier call
C12_Witness ==
    /\ IsFitOfNothing(last)
    /\ last.envelope.text = <<"Error: ", "No coordinates provided">>
    /\ map.camera.by # "initial"

IsRenderedQuery(call) ==
    /\ call.op = "executeTool"
    /\ call.tool = "query_rendered_features"
    /\ call.args.obj
EngineQueries == {"queryRenderedFeatures", "querySourceFeatures"}

\* C13: query_rendered_features given both point and bbox returns an error
\* envelope and does not call the engine's queryRenderedFeatures.
C13_PointAndBboxExclusive ==
    [][(/\ IsRenderedQuery(last')
        /\ Has(last'.args, "point")
        /\ Has(last'.args, "bbox")) =>
          /\ ~last'.rejected
          /\ last'.envelope.isError
          /\ IssuedCalls(last', EngineQueries) = {}]_vars

\* a well-formed point and a well-formed box were given together
C13_Witness ==
    /\ IsRenderedQuery(last)
    /\ last.args.has = {"point", "bbox"}
    /\ last.args.point = APixel
    /\ last.args.bbox = ABox
    /\ last.envelope.text =
          <<"Error: ", "Cannot specify both point and bbox parameters. Use one or the other.">>

IsVectorCall(call) ==
    /\ call.op = "executeTool"
    /\ call.tool = "add_vector_tileset_layer"
    /\ call.args.obj
    /\ Has(call.args, "tilesetUrl")
AddSourceCalls(call, sourceId) ==
    {i \in 1..Len(call.log) : call.log[i].fn = "addSource" /\ call.log[i].arg = sourceId}
VectorHandles == {i \in 1..Len(issued) : issued[i].tool = "add_vector_tileset_layer"}

\* C14: successful add_vector_tileset_layer calls with the same tilesetUrl
\* return the same sourceId and pairwise distinct layerIds, and a call asks
\* the engine to add that source at most once and only when the engine does
\* not hold it.
C14_VectorSourceReused ==
    /\ \A i \in VectorHandles : \A j \in VectorHandles :
          (i # j /\ issued[i].tilesetUrl = issued[j].tilesetUrl) =>
              /\ issued[i].sourceId = issued[j].sourceId
              /\ issued[i].layerId # issued[j].layerId
    /\ IsVectorCall(last) =>
          \A k \in 1..Len(last.log) :
              last.log[k].fn = "addSource" =>
                  /\ last.log[k].outcome = "ok"
                  /\ AddSourceCalls(last, last.log[k].arg) = {k}
                  /\ k > 1
                  /\ last.log[k - 1].fn = "getSource"
                  /\ last.log[k - 1].arg = last.log[k].arg

\* two layers with different names were added from one tileset and the second
\* call found the source in place
C14_Witness ==
    /\ Len(issued) = 2
    /\ VectorHandles = {1, 2}
    /\ issued[1].tilesetUrl = issued[2].tilesetUrl
    /\ issued[1].layerName # issued[2].layerName
    /\ IsVectorCall(last)
    /\ ~last.envelope.isError
    /\ AddSourceCalls(last, last.envelope.sourceId) = {}
    /\ Cardinality({i \in 1..Len(map.sources) : map.sources[i].id = issued[1].sourceId}) = 1
    /\ {issued[1].layerId, issued[2].layerId} \subseteq LayerIds(map)

IsPolygonAdded(call) ==
    /\ call.op = "executeTool"
    /\ call.tool = "add_polygon_to_map"
    /\ ~call.envelope.isError
IsSourceQuery(call) ==
    /\ call.op = "executeTool"
    /\ call.tool = "query_source_features"
    /\ call.args.obj
\* includeGeometry left at its default, true

AllNumbers(items) == \A i \in 1..Len(items) : IsNumber(items[i])
ValidArgs(toolName, args, m) ==
    /\ args.obj
    /\ CASE toolName = "add_points_to_map" ->
               /\ Has(args, "points")
               /\ \A i \in 1..Len(args.points) :
                     {"longitude", "latitude"} \subseteq args.points[i].has
         [] toolName = "add_route_to_map" ->
               Has(args, "coordinates") /\ Len(args.coordinates) >= 2
         [] toolName = "pan_map_to_location" ->
               /\ {"longitude", "latitude"} \subseteq args.has
               /\ IsNumber(args.longitude) /\ IsNumber(args.latitude)
         [] toolName = "fit_map_to_bounds" ->
               Has(args, "coordinates") /\ Len(args.coordinates) >= 1
         [] toolName = "add_polygon_to_map" ->
               Has(args, "coordinates") /\ Len(args.coordinates) >= 1
         [] toolName = "clear_map_layers" -> TRUE
         [] toolName = "set_map_style" -> Has(args, "style")
         [] toolName = "add_vector_tileset_layer" ->
               /\ {"tilesetUrl", "sourceLayer", "layerType"} \subseteq args.has
               /\ ValidTilesetUrl(args.tilesetUrl)
               /\ args.layerType \in LayerTypes
         [] toolName = "query_rendered_features" ->
               /\ ~(Has(args, "point") /\ Has(args, "bbox"))
               /\ Has(args, "point") =>
                     (IsNumber(args.point.x) /\ IsNumber(args.point.y))
               /\ Has(args, "bbox") =>
                     (args.bbox.isArray /\ Len(args.bbox.items) = 4
                      /\ AllNumbers(args.bbox.items))
         [] toolName = "query_source_features" ->
               /\ Has(args, "sourceId")
               /\ HasSource(m, args.sourceId)
               /\ SourceOf(m, args.sourceId).type = "vector" => Has(args, "sourceLayer")
         [] OTHER -> FALSE
EngineAccepted(call) == \A i \in 1..Len(call.log) : call.log[i].outcome = "ok"

\* C16: executeTool with a name of the catalog, arguments valid for that tool
\* and an engine that accepts every call returns isError false, with layerId
\* set for the four layer-creating tools, sourceId also for
\* add_vector_tileset_layer and data for the two query tools; and whatever the
\* arguments, a name of the catalog is never answered with 'Unknown tool'.
C16_CatalogToolsSucceed ==
    [][(IsExecute(last') /\ last'.tool \in Catalog) =>
          /\ last'.thrown => last'.msg[1] # "Unknown tool: "
          /\ (ValidArgs(last'.tool, last'.args, map) /\ EngineAccepted(last')) =>
                /\ ~last'.rejected
                /\ ~last'.envelope.isError
                /\ last'.tool \in LayerCreating <=> last'.envelope.layerId # <<>>
                /\ last'.tool = "add_vector_tileset_layer" <=>
                      last'.envelope.sourceId # <<>>
                /\ last'.tool \in QueryTools <=> last'.envelope.kind = "data"
                /\ last'.tool \in QueryTools =>
                      Len(last'.envelope.data) <= Len(last'.engine)]_vars

\* a query tool answered with features after a layer-creating tool had
\* answered with its handles
C16_Witness ==
    /\ IsExecute(last)
    /\ last.tool = "query_source_features"
    /\ ValidArgs(last.tool, last.args, map)
    /\ ~last.envelope.isError
    /\ Len(last.envelope.data) = 2
    /\ Len(issued) = 1
    /\ issued[1].sourceId # <<>>

IsConstruction(call) == call.op = "constructor"

\* C17: new MapboxMapTools without a map instance throws 'Mapbox GL JS map
\* instance is required' and leaves no dispatcher to call; with a map instance
\* it does not throw and issues no engine call, and the first layer-creating
\* call, when it returns a handle, returns one that ends in '-1'.
C17_Construction ==
    /\ [](IsConstruction(last) =>
             /\ ~last.args.obj =>
                   /\ last.thrown
                   /\ last.msg = <<"Mapbox GL JS map instance is required">>
             /\ last.args.obj =>
                   /\ ~last.thrown
                   /\ last.log = <<>>
                   /\ layerCounter = 0)
    /\ [][/\ ~(IsConstruction(last) /\ ~last.args.obj)
          /\ (/\ layerCounter = 0
              /\ IsExecute(last')
              /\ last'.tool \in LayerCreating
              /\ ~last'.envelope.isError) =>
                /\ SuffixPart(last'.envelope.layerId) = 1
                /\ EndsWith(last'.envelope.layerId, <<"-", "1">>)]_vars

\* the dispatcher was constructed on a map and its first call added a layer
C17_Witness ==
    /\ calls = 1
    /\ IsExecute(last)
    /\ last.tool \in LayerCreating
    /\ EndsWith(last.envelope.layerId, <<"-", "1">>)
    /\ layerCounter = 1

\* the constructor was called without a map instance
C17_NoMapWitness ==
    /\ IsConstruction(last)
    /\ ~last.args.obj
    /\ last.thrown

BadPoint(args) ==
    Has(args, "point") /\ (~IsNumber(args.point.x) \/ ~IsNumber(args.point.y))
BadBbox(args) ==
    /\ Has(args, "bbox")
    /\ ~(args.bbox.isArray /\ Len(args.bbox.items) = 4 /\ AllNumbers(args.bbox.items))

\* C18: query_rendered_features returns an error envelope, and does not query
\* the engine, when point.x or point.y is not a number and when bbox is not an
\* array of exactly 4 numbers.
C18_BadGeometryIsError ==
    [][(IsRenderedQuery(last') /\ (BadPoint(last'.args) \/ BadBbox(last'.args))) =>
          /\ ~last'.rejected
          /\ last'.envelope.isError
          /\ IssuedCalls(last', EngineQueries) = {}]_vars

IsQuery(call) ==
    IsExecute(call) /\ call.tool \in QueryTools /\ ~call.envelope.isError
DefaultLimit(toolName) ==
    IF toolName = "query_rendered_features" THEN 100 ELSE 1000
DocumentedMaximum(toolName) ==
    IF toolName = "query_rendered_features" THEN RenderedMaximum ELSE SourceMaximum
LimitOf(call) ==
    IF Has(call.args, "limit") THEN call.args.limit ELSE DefaultLimit(call.tool)
InDocumentedRange(call) ==
    LimitOf(call) >= 1 /\ LimitOf(call) <= DocumentedMaximum(call.tool)
KeepsGeometry(call) ==
    ~Has(call.args, "includeGeometry") \/ call.args.includeGeometry
AsReturned(call, f) ==
    IF KeepsGeometry(call) THEN f
    ELSE IF call.tool = "query_rendered_features" THEN StripRendered(f)
    ELSE StripSource(f)
FirstOfEngine(call) ==
    LET k == Len(call.engine)
        n == LimitOf(call)
    IN  [i \in 1..(IF n < k THEN n ELSE k) |-> AsReturned(call, call.engine[i])]

\* C19: for a limit n in the documented range (1..1000 for
\* query_rendered_features with default 100, 1..10000 for query_source_features
\* with default 1000), data.features is the first min(n, k) of the k features
\* the engine returned, in the engine's order: the features themselves when
\* geometry is kept, each with its geometry stripped when includeGeometry is
\* false.
C19_FirstFeaturesInOrder ==
    [][(IsQuery(last') /\ InDocumentedRange(last')) =>
          /\ last'.envelope.data = FirstOfEngine(last')
          /\ ReportedCount(last') = Len(FirstOfEngine(last'))]_vars
C19_Witness ==
    /\ IsQuery(last)
    /\ ~Has(last.args, "limit")
    /\ Len(last.engine) > DefaultLimit(last.tool)
    /\ Len(last.envelope.data) = DefaultLimit(last.tool)
    /\ last.envelope.data[DefaultLimit(last.tool)] = last.engine[DefaultLimit(last.tool)]

\* C20: whatever limit the caller passes, query_rendered_features never returns
\* more than 1000 features and query_source_features never more than 10000.
C20_NeverMoreThanMaximum ==
    [][IsQuery(last') =>
          Len(last'.envelope.data) <= DocumentedMaximum(last'.tool)]_vars

\* the ids a text of ids joined by ', ' lists, in order
RECURSIVE SplitIds(_, _, _)
SplitIds(text, i, current) ==
    IF i > Len(text) THEN <<current>>
    ELSE IF i < Len(text) /\ text[i] = "," /\ text[i + 1] = " "
    THEN <<current>> \o SplitIds(text, i + 2, <<>>)
    ELSE SplitIds(text, i + 1, Append(current, text[i]))

IsSourceQueryCall(call) ==
    IsExecute(call) /\ call.tool = "query_source_features" /\ call.args.obj
NamedSource(call) ==
    IF Has(call.args, "sourceId") THEN call.args.sourceId ELSE <<"undefined">>
SourceQueryAllowed(m, call) ==
    /\ HasSource(m, NamedSource(call))
    /\ SourceOf(m, NamedSource(call)).type = "vector" => Has(call.args, "sourceLayer")

\* C21: query_source_features calls the engine's querySourceFeatures only when
\* the source exists and, if the source is of type vector, a sourceLayer was
\* given; otherwise it returns an error envelope, and for an unknown sourceId
\* the message lists the ids of all sources currently in the engine ('none'
\* when there are none).
C21_SourceChecked ==
    [][IsSourceQueryCall(last') =>
          /\ IssuedCalls(last', {"querySourceFeatures"}) # {} <=> SourceQueryAllowed(map, last')
          /\ ~SourceQueryAllowed(map, last') => last'.envelope.isError
          /\ ~HasSource(map, NamedSource(last')) =>
                /\ last'.msg[2] = NamedSource(last')
                /\ IF map.sources = <<>> THEN last'.msg[4] = NoneText
                   ELSE SplitIds(last'.msg[4], 1, <<>>) = IdsOf(map.sources)]_vars
\* an unknown source was named on a map holding several sources
C21_Witness ==
    /\ IsSourceQueryCall(last)
    /\ ~HasSource(map, NamedSource(last))
    /\ Len(map.sources) >= 2
    /\ last.envelope.isError
    /\ IssuedCalls(last, {"querySourceFeatures"}) = {}
\* an unknown source was named on a map holding no source
C21_NoneWitness ==
    /\ IsSourceQueryCall(last)
    /\ map.sources = <<>>
    /\ last.envelope.isError
    /\ last.msg[4] = NoneText
\* a vector source was named without its sourceLayer
C21_VectorWitness ==
    /\ IsSourceQueryCall(last)
    /\ HasSource(map, NamedSource(last))
    /\ SourceOf(map, NamedSource(last)).type = "vector"
    /\ ~Has(last.args, "sourceLayer")
    /\ last.envelope.isError

AcceptedScheme(tilesetUrl) ==
    \E scheme \in {MapboxScheme, HttpScheme, HttpsScheme} :
        /\ Len(tilesetUrl) >= Len(scheme)
        /\ \A i \in 1..Len(scheme) : tilesetUrl[i] = scheme[i]

\* C22: add_vector_tileset_layer with a tilesetUrl that does not start with
\* 'mapbox://', 'http://' or 'https://' returns an error envelope and adds no
\* source and no layer to the engine.
C22_BadTilesetUrl ==
    [][(/\ IsExecute(last')
        /\ last'.tool = "add_vector_tileset_layer"
        /\ Has(last'.args, "tilesetUrl")
        /\ ~AcceptedScheme(last'.args.tilesetUrl)) =>
          /\ ~last'.rejected
          /\ last'.envelope.isError
          /\ map'.sources = map.sources
          /\ map'.layers = map.layers
          /\ IssuedCalls(last', {"addSource", "addLayer"}) = {}]_vars
\* a URL holding 'mapbox://' after its first character was refused on a map
\* that already carries a vector layer of this dispatcher
C22_Witness ==
    /\ IsExecute(last)
    /\ last.tool = "add_vector_tileset_layer"
    /\ last.args.tilesetUrl = EmbeddedUrl
    /\ last.envelope.isError
    /\ Len(issued) >= 1

LayersOfSource(m, sourceId) ==
    {m.layers[i].id : i \in {j \in 1..Len(m.layers) : m.layers[j].source = sourceId}}
FillLayerId(layerId) == layerId \o <<"-", "f", "i", "l", "l">>
StrokeLayerId(layerId) == layerId \o <<"-", "s", "t", "r", "o", "k", "e">>

\* C23: a successful add_polygon_to_map adds exactly one source, whose id is
\* the returned layerId, and exactly two layers, '{layerId}-fill' and
\* '{layerId}-stroke', both referencing that source; no engine layer has the id
\* layerId itself.
C23_PolygonSourceAndLayers ==
    [][IsPolygonAdded(last') =>
          LET layerId == last'.envelope.layerId
          IN  /\ SourceIds(map') \ SourceIds(map) = {layerId}
              /\ Len(map'.sources) = Len(map.sources) + 1
              /\ SubSeq(map'.sources, 1, Len(map.sources)) = map.sources
              /\ LayerIds(map') \ LayerIds(map) = {FillLayerId(layerId), StrokeLayerId(layerId)}
              /\ Len(map'.layers) = Len(map.layers) + 2
              /\ SubSeq(map'.layers, 1, Len(map.layers)) = map.layers
              /\ LayersOfSource(map', layerId) = {FillLayerId(layerId), StrokeLayerId(layerId)}
              /\ layerId \notin LayerIds(map')]_vars
\* a polygon was added, under a layerName of the caller, to a map that holds
\* layers of the application and an earlier layer of this dispatcher
C23_Witness ==
    /\ IsPolygonAdded(last)
    /\ Len(issued) >= 2
    /\ last.envelope.layerId = UniqueLayerName(Cities, 2)
    /\ HasLayer(map, ParksFill)
    /\ HasLayer(map, FillLayerId(last.envelope.layerId))

IsPointsAdded(call) ==
    /\ IsExecute(call)
    /\ call.tool = "add_points_to_map"
    /\ ~call.envelope.isError
ListenersFor(layerId, popups, hover) ==
    {[type |-> t, layer |-> layerId] :
        t \in (IF popups THEN {"click"} ELSE {})
              \cup (IF hover THEN {"mouseenter", "mouseleave"} ELSE {})}

\* C24: add_points_to_map registers a click listener for the new layer if and
\* only if enablePopups is true, and mouseenter and mouseleave listeners if and
\* only if enableHoverEffects is true; no other tool registers any listener on
\* the engine.
C24_Listeners ==
    [][/\ IsPointsAdded(last') =>
             /\ map'.listeners \ map.listeners =
                    ListenersFor(last'.envelope.layerId, options.enablePopups,
                                 options.enableHoverEffects)
             /\ map.listeners \subseteq map'.listeners
             /\ Cardinality(IssuedCalls(last', {"on"})) =
                    Cardinality(ListenersFor(last'.envelope.layerId, options.enablePopups,
                                             options.enableHoverEffects))
       /\ ~IsPointsAdded(last') =>
             /\ map'.listeners = map.listeners
             /\ IssuedCalls(last', {"on"}) = {}]_vars
\* points were added with popups on and hover effects off, after an earlier
\* points layer
C24_Witness ==
    /\ IsPointsAdded(last)
    /\ options.enablePopups
    /\ ~options.enableHoverEffects
    /\ Cardinality(map.listeners) = 2
    /\ [type |-> "click", layer |-> last.envelope.layerId] \in map.listeners

\* clear_map_layers({ layerNames }) with at least one name
IsClearNames(call) ==
    /\ IsExecute(call)
    /\ call.tool = "clear_map_layers"
    /\ call.args.obj
    /\ Has(call.args, "layerNames")
    /\ Len(call.args.layerNames) >= 1
Named(call) == {call.args.layerNames[i] : i \in 1..Len(call.args.layerNames)}
Unnamed(call, layers) ==
    SelectSeq(layers, LAMBDA l : \A i \in 1..Len(call.args.layerNames) :
                                     l.id # call.args.layerNames[i])

C25_TwiceWitness ==
    /\ IsClearNames(last)
    /\ Len(last.args.layerNames) = 2
    /\ last.args.layerNames[1] = last.args.layerNames[2]
    /\ ReportedCount(last) = 1

\* clear_map_layers through executeTool, in either mode
IsClearCall(call) ==
    IsExecute(call) /\ call.tool = "clear_map_layers" /\ call.args.obj
\* the sources add_vector_tileset_layer created on this dispatcher
OwnVectorSourceIds(m) ==
    {m.sources[i].id : i \in {j \in 1..Len(m.sources) :
        m.sources[j].own /\ m.sources[j].type = "vector"}}

\* C26: a vector source created by add_vector_tileset_layer stays in the
\* engine as long as at least one remaining layer references it, and is
\* removed by the clear_map_layers call (all-layers mode or explicit-names
\* mode) that removes its last referencing layer.
C26_VectorSourceLifetime ==
    [][\A sourceId \in OwnVectorSourceIds(map) :
          /\ LayersOfSource(map', sourceId) # {} => HasSource(map', sourceId)
          /\ (/\ IsClearCall(last')
              /\ LayersOfSource(map, sourceId) # {}
              /\ LayersOfSource(map', sourceId) = {}) => ~HasSource(map', sourceId)]_vars
\* two vector layers shared one source; the first was removed by name and the
\* source stayed, the second was removed by name and the source went with it
C26_Witness ==
    /\ IsClearNamed(last)
    /\ ReportedCount(last) = 1
    /\ Len(issued) = 2
    /\ issued[1].tool = "add_vector_tileset_layer"
    /\ issued[2].tool = "add_vector_tileset_layer"
    /\ issued[1].sourceId = issued[2].sourceId
    /\ ~HasLayer(map, issued[1].layerId)
    /\ ~HasLayer(map, issued[2].layerId)
    /\ last.args.layerNames[1] = issued[2].layerId
    /\ ~HasSource(map, issued[1].sourceId)
    /\ map.style = <<"initial">>
\* the last layer of a vector source was removed by clear_map_layers({})
C26_AllWitness ==
    /\ IsClearAll(last)
    /\ IsExecute(last)
    /\ ReportedCount(last) >= 1
    /\ Len(issued) >= 1
    /\ issued[1].tool = "add_vector_tileset_layer"
    /\ ~HasSource(map, issued[1].sourceId)
    /\ IssuedCalls(last, {"removeSource"}) # {}
    /\ map.style = <<"initial">>

\* the promises of the layer-creating calls whose handler advanced the counter
Counting ==
    {i \in 1..Len(pending) :
        pending[i].tool \in LayerCreating /\ pending[i].counter # pending[i].counterBefore}
\* the promises that carry a layerId
Handles ==
    {i \in 1..Len(pending) :
        ~pending[i].rejected /\ pending[i].envelope.kind \in {"layer", "vector-layer"}}

\* C27: when several executeTool calls are started on the same dispatcher
\* without awaiting one another, each handler runs to completion before the
\* next handler starts: their engine calls never interleave, each
\* layer-creating call gets its own counter value, and the returned layerIds
\* are pairwise distinct.
C27_NoInterleaving ==
    /\ \A i \in 1..Len(pending) : \A j \in 1..Len(pending) :
          i < j =>
             /\ pending[i].to <= pending[j].from
             /\ pending[i].to = pending[i].from + Len(pending[i].log)
             /\ pending[i].counter <= pending[j].counterBefore
    /\ \A i \in Counting : \A j \in Counting :
          i # j => pending[i].counter # pending[j].counter
    /\ \A i \in Handles : \A j \in Handles :
          i # j => pending[i].envelope.layerId # pending[j].envelope.layerId
\* two layer-creating calls under the same layerName were started, the second
\* before the promise of the first had settled, and both returned a layerId
C27_Witness ==
    /\ Len(pending) >= 2
    /\ ~pending[1].settled
    /\ {1, 2} \subseteq Handles
    /\ pending[1].tool = pending[2].tool
    /\ pending[1].args = pending[2].args
    /\ pending[1].log # <<>>
    /\ pending[2].log # <<>>

MutatingCalls ==
    {"addSource", "addLayer", "removeLayer", "removeSource", "flyTo", "setCenter",
     "setZoom", "fitBounds", "setStyle", "on"}

\* C28: whenever executeTool returns an envelope with isError true, that call
\* issued no mutating engine call (addSource, addLayer, removeLayer,
\* removeSource, flyTo, setCenter, setZoom, fitBounds, setStyle, on): the
\* engine's sources, layers, camera and listeners are as they were before the
\* call.
C28_ErrorLeavesEngine ==
    [][(IsExecute(last') /\ last'.envelope.isError) =>
          /\ IssuedCalls(last', MutatingCalls) = {}
          /\ map'.sources = map.sources
          /\ map'.layers = map.layers
          /\ map'.camera = map.camera
          /\ map'.listeners = map.listeners]_vars

\* the removeSource calls the engine refused because a layer uses the source
RefusedRemovals(call) ==
    {i \in 1..Len(call.log) :
        call.log[i].fn = "removeSource" /\ call.log[i].outcome = "error-event"}

\* C29: clear_map_layers (both modes) and destroy never call the engine's
\* removeSource for a source that a layer still present in the engine
\* references; a source is removed only after every layer using it has been
\* removed.
C29_RemoveSourceOnlyUnused ==
    [][(IsClearCall(last') \/ last'.op = "destroy") =>
          /\ RefusedRemovals(last') = {}
          /\ \A sourceId \in SourceIds(map) \ SourceIds(map') :
                LayersOfSource(map', sourceId) = {}]_vars

\* the source configuration the claim expects for a tilesetUrl
ConfiguredWith(tilesetUrl) ==
    IF SubSeq(tilesetUrl, 1, 9) = <<"m", "a", "p", "b", "o", "x", ":", "/", "/">>
    THEN [url |-> tilesetUrl, tiles |-> <<>>]
    ELSE [url |-> <<>>, tiles |-> <<tilesetUrl>>]

\* C30: after a successful add_vector_tileset_layer(tilesetUrl, ...), the
\* engine source named by the returned sourceId is a vector source configured
\* with exactly that tilesetUrl (as url for mapbox:// URLs, as the single tiles
\* entry otherwise); two calls with different tilesetUrl values never share one
\* sourceId.
C30_SourceOfTileset ==
    /\ [][(IsVectorCall(last') /\ ~last'.envelope.isError) =>
             /\ HasSource(map', last'.envelope.sourceId)
             /\ SourceOf(map', last'.envelope.sourceId).type = "vector"
             /\ SourceOf(map', last'.envelope.sourceId).data =
                    ConfiguredWith(last'.args.tilesetUrl)]_vars
    /\ [](\A i \in VectorHandles : \A j \in VectorHandles :
             issued[i].tilesetUrl # issued[j].tilesetUrl =>
                 issued[i].sourceId # issued[j].sourceId)
====
